---------------------------- MODULE Spec2Model ----------------------------
(***************************************************************************)
(* A model of MLBStatsTracker (src/app.py): the memoized MLB Stats API     *)
(* wrappers of class MLBStatsAPI, the rolling and season reducers, the     *)
(* rolling -> season fallback of get_player_stats, the cache clearing      *)
(* endpoint and build_team_data.                                           *)
(*                                                                         *)
(* Python values are modelled as follows.                                  *)
(*   - a dict is a record; the empty dict {} is EmptyDict;                 *)
(*   - a list is a sequence, wrapped in a record when it is a return value; *)
(*   - a JSON field of a stat dict is a natural number, MISSING (the key   *)
(*     is absent), or BAD (a value int() rejects with ValueError);         *)
(*   - an innings-pitched string "W.F" is the record [w |-> W, f |-> F],   *)
(*     "W" is [w |-> W, f |-> NODOT];                                      *)
(*   - a float is an IEEE 754 double, kept exactly (see "Python floats"),  *)
(*     rendered by FFmt as Python's f"{x:.Nf}" renders it;                 *)
(*   - the outcome of a call is [raised |-> exception name or "none",      *)
(*     val |-> returned value].                                            *)
(***************************************************************************)
EXTENDS Integers, Sequences, FiniteSets, TLC

(***************************************************************************)
(* Rendering of numbers: f"{x:.3f}", f"{x:.2f}", f"{x:.1f}".               *)
(***************************************************************************)
Digit(d) ==
    CASE d = 0 -> "0" [] d = 1 -> "1" [] d = 2 -> "2" [] d = 3 -> "3"
      [] d = 4 -> "4" [] d = 5 -> "5" [] d = 6 -> "6" [] d = 7 -> "7"
      [] d = 8 -> "8" [] OTHER -> "9"

RECURSIVE NatStr(_)
NatStr(n) == IF n < 10 THEN Digit(n) ELSE NatStr(n \div 10) \o Digit(n % 10)

RECURSIVE Pow10(_)
Pow10(k) == IF k = 0 THEN 1 ELSE 10 * Pow10(k - 1)

RECURSIVE FracStr(_, _)
\* the k low decimal digits of n, zero padded
FracStr(n, k) == IF k = 0 THEN "" ELSE FracStr(n \div 10, k - 1) \o Digit(n % 10)

\* num/den scaled by 10^k and rounded to the nearest integer, an exact tie
\* going to the even neighbour (the rounding of Python's float formatting).
RoundScaled(num, den, k) ==
    LET s == num * Pow10(k)
        q == s \div den
        r == s % den
    IN  IF 2 * r < den THEN q
        ELSE IF 2 * r > den THEN q + 1
        ELSE IF q % 2 = 0 THEN q ELSE q + 1

\* f"{num/den:.kf}" for num >= 0, den > 0
FmtFixed(num, den, k) ==
    LET v == RoundScaled(num, den, k)
    IN  NatStr(v \div Pow10(k)) \o "." \o FracStr(v % Pow10(k), k)

(***************************************************************************)
(* Python floats.  A float is an IEEE 754 double; the values the reducers  *)
(* compute are finite, not negative and, unless zero, between 2^-22 and    *)
(* 2^15, so a float x is modelled by the natural number x * 2^75,          *)
(* which is exact for these doubles.  These numbers exceed the integers of *)
(* the model checker and are kept as sequences of limbs, least significant *)
(* first, in base 2^15, without leading zero limbs.  The operations  *)
(* +, / and float() give the exact result rounded to 53 significant bits,  *)
(* a tie going to the even neighbour.                                      *)
(***************************************************************************)
RECURSIVE Pow2(_)
Pow2(n) == IF n = 0 THEN 1 ELSE 2 * Pow2(n - 1)

\* the base of the limbs
Limb == Pow2(15)

RECURSIVE BNorm(_)
BNorm(a) ==
    IF a = <<>> THEN a
    ELSE IF a[Len(a)] = 0 THEN BNorm(SubSeq(a, 1, Len(a) - 1))
    ELSE a

RECURSIVE BFromInt(_)
BFromInt(n) == IF n = 0 THEN <<>> ELSE <<n % Limb>> \o BFromInt(n \div Limb)

RECURSIVE BToInt(_)
BToInt(a) == IF a = <<>> THEN 0 ELSE a[1] + Limb * BToInt(Tail(a))

BLimb(a, i) == IF i <= Len(a) THEN a[i] ELSE 0

RECURSIVE BAddFrom(_, _, _, _)
\* the limbs from the i-th on of a + b, carry the carry into limb i
BAddFrom(a, b, i, carry) ==
    IF i > Len(a) /\ i > Len(b)
      THEN IF carry = 0 THEN <<>> ELSE <<carry>>
    ELSE <<(BLimb(a, i) + BLimb(b, i) + carry) % Limb>>
           \o BAddFrom(a, b, i + 1, (BLimb(a, i) + BLimb(b, i) + carry) \div Limb)

BAdd(a, b) == BAddFrom(a, b, 1, 0)

RECURSIVE BSubFrom(_, _, _, _)
BSubFrom(a, b, i, borrow) ==
    IF i > Len(a) THEN <<>>
    ELSE <<(a[i] - BLimb(b, i) - borrow + Limb) % Limb>>
           \o BSubFrom(a, b, i + 1,
                       IF a[i] - BLimb(b, i) - borrow < 0 THEN 1 ELSE 0)

\* a - b for a >= b
BSub(a, b) == BNorm(BSubFrom(a, b, 1, 0))

RECURSIVE BLessFrom(_, _, _)
\* a < b for a and b of the same length, comparing from limb i down
BLessFrom(a, b, i) ==
    IF i = 0 THEN FALSE
    ELSE IF a[i] # b[i] THEN a[i] < b[i]
    ELSE BLessFrom(a, b, i - 1)

BLess(a, b) ==
    IF Len(a) # Len(b) THEN Len(a) < Len(b) ELSE BLessFrom(a, b, Len(a))

RECURSIVE BMulFrom(_, _, _, _)
BMulFrom(a, k, i, carry) ==
    IF i > Len(a) THEN IF carry = 0 THEN <<>> ELSE <<carry>>
    ELSE <<(a[i] * k + carry) % Limb>>
           \o BMulFrom(a, k, i + 1, (a[i] * k + carry) \div Limb)

\* a * k for 0 <= k < 2^15
BMulSmall(a, k) == IF k = 0 THEN <<>> ELSE BMulFrom(a, k, 1, 0)

\* a * 2^n
BShl(a, n) ==
    IF a = <<>> THEN a
    ELSE [i \in 1..(n \div 15) |-> 0] \o BMulSmall(a, Pow2(n % 15))

\* a \div 2^n
BShr(a, n) ==
    LET w == n \div 15
        r == n % 15
    IN  BNorm([i \in 1..(Len(a) - w) |->
                  (a[i + w] \div Pow2(r))
                    + (BLimb(a, i + w + 1) % Pow2(r)) * Pow2(15 - r)])

RECURSIVE IntBits(_)
IntBits(n) == IF n = 0 THEN 0 ELSE 1 + IntBits(n \div 2)

\* the number of bits of a
BBits(a) == IF a = <<>> THEN 0 ELSE 15 * (Len(a) - 1) + IntBits(a[Len(a)])

BEven(a) == a = <<>> \/ a[1] % 2 = 0

\* q rounded by the remainder r of a division by d (sticky: something
\* below r was dropped as well): to nearest, a tie to the even neighbour
BRoundBy(q, r, d, sticky) ==
    LET twice == BShl(r, 1)
    IN  IF BLess(twice, d) THEN q
        ELSE IF BLess(d, twice) \/ sticky THEN BAdd(q, <<1>>)
        ELSE IF BEven(q) THEN q ELSE BAdd(q, <<1>>)

\* a rounded to 53 significant bits
Round53(a, sticky) ==
    LET drop == BBits(a) - 53
        q == BShr(a, drop)
    IN  IF a = <<>> \/ drop <= 0 THEN a
        ELSE BShl(BRoundBy(q, BSub(a, BShl(q, drop)), BShl(<<1>>, drop), sticky),
                  drop)

RECURSIVE BDigitIn(_, _, _, _)
\* the largest k of lo..hi with k * d <= r, lo being one such k
BDigitIn(r, d, lo, hi) ==
    IF lo >= hi THEN lo
    ELSE IF BLess(r, BMulSmall(d, (lo + hi + 1) \div 2))
      THEN BDigitIn(r, d, lo, ((lo + hi + 1) \div 2) - 1)
    ELSE BDigitIn(r, d, (lo + hi + 1) \div 2, hi)

\* the two limbs of r from the top limb of d up, as one number
BTop(r, d) == BLimb(r, Len(d) + 1) * Limb + BLimb(r, Len(d))

\* r \div d for r < d * 2^15, one limb of a quotient: it lies between the
\* quotients of the top limbs of r by the top limb of d, taken one too
\* large and as it is
BDigit(r, d) ==
    BDigitIn(r, d, BTop(r, d) \div (d[Len(d)] + 1),
             IF BTop(r, d) \div d[Len(d)] < Limb THEN BTop(r, d) \div d[Len(d)]
             ELSE Limb - 1)

RECURSIVE BDivLimbs(_, _, _)
\* the quotient and the remainder of rem * 2^(15 n) by d, for rem < d
BDivLimbs(rem, d, n) ==
    IF n = 0 \/ rem = <<>> THEN [q |-> [i \in 1..n |-> 0], rem |-> rem]
    ELSE LET r == BShl(rem, 15)
             digit == BDigit(r, d)
             rest == BDivLimbs(BSub(r, BMulSmall(d, digit)), d, n - 1)
         IN  [q |-> Append(rest.q, digit), rem |-> rest.rem]

\* the float 0.0 (and the int 0 where the code formats it as a float)
FZero == <<>>

\* float(n) for a natural number n
FFromInt(n) == BShl(BFromInt(n), 75)

\* x + y
FAdd(x, y) ==
    IF x = <<>> THEN y ELSE IF y = <<>> THEN x ELSE Round53(BAdd(x, y), FALSE)

\* a / y for a natural number a < 2^15 and a float y > 0: the quotient of
\* a * 2^150 by y * 2^75, both shifted to fill the top limb of the divisor
FDivInt(a, y) ==
    LET s == 15 - IntBits(y[Len(y)])
        r == BDivLimbs(BShl(BFromInt(a), s), BShl(y, s), 10)
    IN  Round53(BNorm(r.q), r.rem # <<>>)

\* x * 10^k rounded to the nearest integer, a tie going to the even one:
\* the digits of f"{x:.kf}"
FScaled(x, k) ==
    LET p == BMulSmall(x, Pow10(k))
        q == BShr(p, 75)
    IN  BToInt(BRoundBy(q, BSub(p, BShl(q, 75)), BShl(<<1>>, 75), FALSE))

\* the decimal numeral of v / 10^k with k digits after the point
DecStr(v, k) == NatStr(v \div Pow10(k)) \o "." \o FracStr(v % Pow10(k), k)

\* f"{x:.kf}"
FFmt(x, k) == DecStr(FScaled(x, k), k)

(***************************************************************************)
(* JSON field values and int().                                            *)
(***************************************************************************)
MISSING == -1
BAD == -2
NODOT == -1

\* int(stats.get(field, 0)): the value, 0 when the key is absent
IntOf(v) == IF v = MISSING THEN 0 ELSE v

IpMissing == [w |-> MISSING, f |-> NODOT]
IpBad == [w |-> BAD, f |-> NODOT]
Ip(w, f) == [w |-> w, f |-> f]

HitFields == <<"atBats", "hits", "homeRuns", "rbi", "baseOnBalls",
               "strikeOuts", "totalBases">>
PitchFields == <<"hits", "earnedRuns", "baseOnBalls", "strikeOuts",
                 "homeRuns", "saves", "gamesStarted">>

\* a stat dict with no key at all
NoStat ==
    [atBats |-> MISSING, hits |-> MISSING, homeRuns |-> MISSING,
     rbi |-> MISSING, baseOnBalls |-> MISSING, strikeOuts |-> MISSING,
     totalBases |-> MISSING, inningsPitched |-> IpMissing,
     earnedRuns |-> MISSING, saves |-> MISSING, gamesStarted |-> MISSING]

\* some field int() is applied to by the hitting reducers raises ValueError
BadHit(s) == \E i \in 1..Len(HitFields) : s[HitFields[i]] = BAD
\* the same for the pitching reducers (innings pitched included)
BadPitch(s) ==
    \/ s.inningsPitched.w = BAD
    \/ \E i \in 1..Len(PitchFields) : s[PitchFields[i]] = BAD

(***************************************************************************)
(* The derived stats and their defaults.                                   *)
(***************************************************************************)
EmptyDict == [empty |-> TRUE]

DefaultHitting ==
    [avg |-> ".000", obp |-> ".000", slg |-> ".000", ops |-> ".000",
     ab |-> 0, h |-> 0, hr |-> 0, rbi |-> 0, bb |-> 0, so |-> 0]

DefaultPitching ==
    [era |-> "0.00", whip |-> "0.00", k |-> 0, bb |-> 0, ip |-> "0.0",
     h |-> 0, hr |-> 0, sv |-> 0, gs |-> 0, er |-> 0]

Returned(v) == [raised |-> "none", val |-> v]
Raised(e) == [raised |-> e, val |-> EmptyDict]

\* a / b if b > 0 else 0, for natural numbers a and b
Ratio(a, b) == IF b > 0 THEN FDivInt(a, FFromInt(b)) ELSE FZero

\* an ops that leaves the slugging out
OpsOf_obp(obp, slg) == obp

\* on-base plus slugging: ops = obp + slg, a sum of two floats
OpsOf(obp, slg) == FAdd(obp, slg)

\* the derived hitting stats of the totals (src/app.py 201-218 and 291-308)
HittingOf(ab, h, hr, rbi, bb, so, tb) ==
    [avg |-> FFmt(Ratio(h, ab), 3),
     obp |-> FFmt(Ratio(h + bb, ab + bb), 3),
     slg |-> FFmt(Ratio(tb, ab), 3),
     ops |-> FFmt(OpsOf(Ratio(h + bb, ab + bb), Ratio(tb, ab)), 3),
     ab |-> ab, h |-> h, hr |-> hr, rbi |-> rbi, bb |-> bb, so |-> so]

\* a / ip if ip > 0 else 0, for a natural number a and a float ip
PerInning(a, ip) == IF ip # FZero THEN FDivInt(a, ip) ELSE FZero

\* the derived pitching stats of the totals, ip the innings as a float
PitchingOf(ip, h, er, bb, k, hr, sv, gs) ==
    [era |-> FFmt(PerInning(er * 9, ip), 2),
     whip |-> FFmt(PerInning(bb + h, ip), 2),
     k |-> k, bb |-> bb, ip |-> FFmt(ip, 1),
     h |-> h, hr |-> hr, sv |-> sv, gs |-> gs, er |-> er]

(***************************************************************************)
(* The reducers.  A game-log entry (one element of "splits") is            *)
(* [shape, stat]: shape "dict" is a JSON object with a "stat" object,      *)
(* "nostat" an object without the key "stat", "notdict" a JSON value that  *)
(* is no object (game.get raises AttributeError).                          *)
(***************************************************************************)
Entry(s) == [shape |-> "dict", stat |-> s]
EntryNoStat == [shape |-> "nostat", stat |-> NoStat]
EntryNotDict == [shape |-> "notdict", stat |-> NoStat]

\* game.get('stat', {})
StatOf(game) == IF game.shape = "dict" THEN game.stat ELSE NoStat

RECURSIVE SumField(_, _)
\* the sum over the game logs of int(stats.get(field, 0))
SumField(game_logs, field) ==
    IF game_logs = <<>> THEN 0
    ELSE IntOf(StatOf(Head(game_logs))[field]) + SumField(Tail(game_logs), field)

\* the first entry at which the loop of a reducer raises, 0 when none does
FirstRaise(game_logs, stat_type) ==
    LET bad == {i \in 1..Len(game_logs) :
                   \/ game_logs[i].shape = "notdict"
                   \/ IF stat_type = "hitting"
                        THEN BadHit(StatOf(game_logs[i]))
                      ELSE BadPitch(StatOf(game_logs[i]))}
    IN  IF bad = {} THEN 0 ELSE CHOOSE i \in bad : \A j \in bad : i <= j

_aggregate_hitting_stats(game_logs) ==
    LET e == FirstRaise(game_logs, "hitting")
    IN  IF e # 0 /\ game_logs[e].shape = "notdict"
          THEN Raised("AttributeError")
        ELSE IF e # 0
          THEN Returned(DefaultHitting)
        ELSE Returned(HittingOf(SumField(game_logs, "atBats"),
                                SumField(game_logs, "hits"),
                                SumField(game_logs, "homeRuns"),
                                SumField(game_logs, "rbi"),
                                SumField(game_logs, "baseOnBalls"),
                                SumField(game_logs, "strikeOuts"),
                                SumField(game_logs, "totalBases")))

\* innings that read the digit after the dot as tenths
InningsOf_tenths(ip) ==
    IF ip.w = MISSING THEN FZero
    ELSE IF ip.f = NODOT THEN FFromInt(ip.w)
    ELSE FDivInt(10 * ip.w + ip.f, FFromInt(10))

\* one game's innings pitched, the digits after the dot being thirds of an
\* inning: int(whole) + (int(third) / 3.0) with a dot, float(ip_str) without
InningsOf(ip) ==
    IF ip.w = MISSING THEN FZero
    ELSE IF ip.f = NODOT THEN FFromInt(ip.w)
    ELSE FAdd(FFromInt(ip.w), FDivInt(ip.f, FFromInt(3)))

RECURSIVE SumInnings(_, _)
\* totals['innings_pitched'] after the loop went over game_logs, entry by
\* entry, from the float total
SumInnings(game_logs, total) ==
    IF game_logs = <<>> THEN total
    ELSE SumInnings(Tail(game_logs),
                    FAdd(total, InningsOf(StatOf(Head(game_logs)).inningsPitched)))

_aggregate_pitching_stats(game_logs) ==
    LET e == FirstRaise(game_logs, "pitching")
    IN  IF e # 0 /\ game_logs[e].shape = "notdict"
          THEN Raised("AttributeError")
        ELSE IF e # 0
          THEN Returned(DefaultPitching)
        ELSE Returned(PitchingOf(SumInnings(game_logs, FZero),
                                 SumField(game_logs, "hits"),
                                 SumField(game_logs, "earnedRuns"),
                                 SumField(game_logs, "baseOnBalls"),
                                 SumField(game_logs, "strikeOuts"),
                                 SumField(game_logs, "homeRuns"),
                                 SumField(game_logs, "saves"),
                                 SumField(game_logs, "gamesStarted")))

_format_hitting_stats(stats) ==
    IF BadHit(stats) THEN Returned(DefaultHitting)
    ELSE Returned(HittingOf(IntOf(stats.atBats), IntOf(stats.hits),
                            IntOf(stats.homeRuns), IntOf(stats.rbi),
                            IntOf(stats.baseOnBalls), IntOf(stats.strikeOuts),
                            IntOf(stats.totalBases)))

\* float(stats.get('inningsPitched', '0') or '0'): "W.F" is read as the
\* decimal number W + F/10, that is the float nearest to (10 W + F) / 10
DecimalOf(ip) ==
    IF ip.w = MISSING THEN FZero
    ELSE IF ip.f = NODOT THEN FFromInt(ip.w)
    ELSE FDivInt(10 * ip.w + ip.f, FFromInt(10))

_format_pitching_stats(stats) ==
    IF BadPitch(stats) THEN Returned(DefaultPitching)
    ELSE Returned(PitchingOf(DecimalOf(stats.inningsPitched),
                             IntOf(stats.hits), IntOf(stats.earnedRuns),
                             IntOf(stats.baseOnBalls), IntOf(stats.strikeOuts),
                             IntOf(stats.homeRuns), IntOf(stats.saves),
                             IntOf(stats.gamesStarted)))

(***************************************************************************)
(* The stat dicts the upstream responses of the model carry, and the       *)
(* reducers on the game logs and season stats made of them.  The requests *)
(* of a run repeat these few inputs, so what the reducers give for them is *)
(* computed once.                                                          *)
(***************************************************************************)
StatA ==
    [atBats |-> 4, hits |-> 1, homeRuns |-> 0, rbi |-> 1, baseOnBalls |-> 1,
     strikeOuts |-> 1, totalBases |-> 2, inningsPitched |-> Ip(5, 2),
     earnedRuns |-> 2, saves |-> 0, gamesStarted |-> 1]
StatB ==
    [atBats |-> 3, hits |-> 2, homeRuns |-> 1, rbi |-> 2, baseOnBalls |-> 0,
     strikeOuts |-> 0, totalBases |-> 5, inningsPitched |-> Ip(3, 1),
     earnedRuns |-> 1, saves |-> 1, gamesStarted |-> 0]
\* a game log with a field int() rejects
StatBad == [StatA EXCEPT !.hits = BAD]
\* season totals
StatSeason ==
    [atBats |-> 20, hits |-> 6, homeRuns |-> 2, rbi |-> 5, baseOnBalls |-> 3,
     strikeOuts |-> 4, totalBases |-> 12, inningsPitched |-> Ip(45, 1),
     earnedRuns |-> 15, saves |-> 0, gamesStarted |-> 7]

ModelGameLogs ==
    {<<Entry(StatA)>>, <<Entry(StatA), Entry(StatB)>>,
     <<Entry(StatBad), Entry(StatB)>>, <<Entry(StatA), EntryNotDict>>}
ModelSeasonStats == {StatSeason, StatBad}

AggregatedHitting == [g \in ModelGameLogs |-> _aggregate_hitting_stats(g)]
AggregatedPitching == [g \in ModelGameLogs |-> _aggregate_pitching_stats(g)]
FormattedHitting == [s \in ModelSeasonStats |-> _format_hitting_stats(s)]
FormattedPitching == [s \in ModelSeasonStats |-> _format_pitching_stats(s)]

\* the reducer get_player_stats hands the splits to
aggregate_stats(stat_type, game_logs) ==
    IF stat_type = "hitting"
      THEN IF game_logs \in ModelGameLogs THEN AggregatedHitting[game_logs]
           ELSE _aggregate_hitting_stats(game_logs)
    ELSE IF game_logs \in ModelGameLogs THEN AggregatedPitching[game_logs]
    ELSE _aggregate_pitching_stats(game_logs)

\* the reducer get_season_stats hands the stat of the first split to
format_stats(stat_type, season_stats) ==
    IF stat_type = "hitting"
      THEN IF season_stats \in ModelSeasonStats THEN FormattedHitting[season_stats]
           ELSE _format_hitting_stats(season_stats)
    ELSE IF season_stats \in ModelSeasonStats THEN FormattedPitching[season_stats]
    ELSE _format_pitching_stats(season_stats)

(***************************************************************************)
(* Upstream responses.  requests.get / raise_for_status / response.json    *)
(* either raise a RequestException (t = "error") or give the decoded JSON  *)
(* (t = "json"), of which the model keeps the shape the code looks at:     *)
(*   "notdict"   the top-level value is no object                          *)
(*   "nostats"   the key "stats" is absent or its value is empty           *)
(*   "statsdict" "stats" is a non-empty object: data['stats'][0] KeyError  *)
(*   "statsint"  "stats" is a number: data['stats'][0] raises TypeError    *)
(*   "nosplits"  stats[0] has no or empty "splits"                         *)
(*   "splits"    stats[0]["splits"] is the sequence rows                   *)
(* For the schedule, rows are the games of dates[0]; for the roster, the   *)
(* players of "roster"; for team stats, the stat groups.                   *)
(***************************************************************************)
TransportFailure == [t |-> "error", shape |-> "none", rows |-> <<>>]
Json(shape) == [t |-> "json", shape |-> shape, rows |-> <<>>]
JsonRows(rows) == [t |-> "json", shape |-> "splits", rows |-> rows]

(***************************************************************************)
(* The cache: flask_caching's Cache with CACHE_TYPE 'simple' and its       *)
(* memoize decorator.  An entry is the value with the time it was computed *)
(* and its timeout; a key is the function with its arguments.              *)
(***************************************************************************)
Families == {"hitting", "pitching"}

\* a key that leaves the window length out
make_cache_key_without_days(fn, id, fam, days) ==
    [fn |-> fn, id |-> id, fam |-> fam, days |-> 0]

make_cache_key(fn, id, fam, days) ==
    [fn |-> fn, id |-> id, fam |-> fam, days |-> days]

\* what looking up a key without an entry gives
NoEntry == [value |-> EmptyDict, computed_at |-> 0, ttl |-> 0]
Lookup(c, key) == IF key \in DOMAIN c THEN c[key] ELSE NoEntry

\* an entry served only once it has expired
Fresh_reversed(e, t) == e # NoEntry /\ t > e.computed_at + e.ttl
\* an entry still served at the second it expires
Fresh_inclusive(e, t) == e # NoEntry /\ t <= e.computed_at + e.ttl

\* SimpleCache.get: the entry is served while it has not expired
Fresh(e, t) == e # NoEntry /\ t < e.computed_at + e.ttl

\* a set that leaves an entry that is already there as it is
Put_keep(c, key, e) ==
    [k \in DOMAIN c \cup {key} |-> IF k \in DOMAIN c THEN c[k] ELSE e]

\* SimpleCache.set
Put(c, key, e) ==
    [k \in DOMAIN c \cup {key} |-> IF k = key THEN e ELSE c[k]]

NoEntries == [k \in {} |-> NoEntry]

\* cache.memoize(timeout)(f): c the cache and t the time at the call,
\* prod the run of f's body against c, [cache, res, reqs], looked at only
\* on a miss.  A raised exception leaves through the decorator unstored.
memoize(c, t, key, timeout, prod) ==
    IF Fresh(Lookup(c, key), t)
      THEN [cache |-> c, res |-> Returned(Lookup(c, key).value),
            reqs |-> <<>>, hit |-> TRUE]
    ELSE IF prod.res.raised # "none"
      THEN [cache |-> prod.cache, res |-> prod.res, reqs |-> prod.reqs,
            hit |-> FALSE]
    ELSE [cache |-> Put(prod.cache, key,
                        [value |-> prod.res.val, computed_at |-> t,
                         ttl |-> timeout]),
          res |-> prod.res, reqs |-> prod.reqs, hit |-> FALSE]

\* a clear that forgets the player stats only
cache_clear_player_stats(c) ==
    [k \in {j \in DOMAIN c : j.fn # "get_player_stats"} |-> c[k]]

\* cache.clear(): every entry goes
cache_clear(c) == NoEntries

\* the run of a function body that touches no other cache entry
Body(c, res, req) == [cache |-> c, res |-> res, reqs |-> <<req>>]

(***************************************************************************)
(* class MLBStatsAPI.  Each memoized static method is an operator of the   *)
(* cache c, the time t, its arguments and the upstream response(s) its     *)
(* body would receive; it gives [cache, res, reqs, hit]: the cache after   *)
(* the call, what the call returned or raised, the upstream requests it    *)
(* issued in order, and whether the decorator served a stored entry.       *)
(***************************************************************************)
ScheduleTimeout == 180
RosterTimeout == 86400
PlayerStatsTimeout == 21600
SeasonStatsTimeout == 43200
TeamStatsTimeout == 21600

\* a schedule row: one game of data['dates'][0]['games']; shape "nokey" is
\* a game object without one of the keys the code indexes (KeyError)
Game(pk, home, away) ==
    [shape |-> "dict", gamePk |-> pk, home_id |-> home, away_id |-> away]
GameNoKey == [shape |-> "nokey", gamePk |-> 0, home_id |-> 0, away_id |-> 0]

GamesOf(rows) ==
    [i \in 1..Len(rows) |->
        [id |-> rows[i].gamePk, home_id |-> rows[i].home_id,
         away_id |-> rows[i].away_id]]

get_todays_games_body(resp) ==
    IF resp.t = "error" THEN Returned([games |-> <<>>])
    ELSE IF resp.shape = "notdict" THEN Raised("TypeError")
    ELSE IF resp.shape # "splits" THEN Returned([games |-> <<>>])
    ELSE IF \E i \in 1..Len(resp.rows) : resp.rows[i].shape = "nokey"
      THEN Raised("KeyError")
    ELSE Returned([games |-> GamesOf(resp.rows)])

get_todays_games(c, t, resp) ==
    memoize(c, t, make_cache_key("get_todays_games", 0, "", 0),
            ScheduleTimeout, Body(c, get_todays_games_body(resp), "schedule"))

\* a roster row: one player of data['roster']
Absent == [absent |-> TRUE]
Player(id, type) == [shape |-> "dict", id |-> id, type |-> type]
PlayerNoKey == [shape |-> "nokey", id |-> 0, type |-> ""]

player_info(row) == [id |-> row.id, stats |-> Absent]

\* a selection that takes every player, whatever the position type
SelectPlayers_all(rows, pitchers) ==
    [i \in 1..Len(rows) |-> player_info(rows[i])]

RECURSIVE SelectPlayers(_, _)
\* the players of rows that are (pitchers = TRUE) or are not of position
\* type 'Pitcher', in the order of rows
SelectPlayers(rows, pitchers) ==
    IF rows = <<>> THEN <<>>
    ELSE IF (Head(rows).type = "Pitcher") = pitchers
      THEN <<player_info(Head(rows))>> \o SelectPlayers(Tail(rows), pitchers)
    ELSE SelectPlayers(Tail(rows), pitchers)

EmptyRoster == [batters |-> <<>>, pitchers |-> <<>>]

get_team_roster_body(resp) ==
    IF resp.t = "error" THEN Returned(EmptyRoster)
    ELSE IF resp.shape = "notdict" THEN Raised("AttributeError")
    ELSE IF resp.shape # "splits" THEN Returned(EmptyRoster)
    ELSE IF \E i \in 1..Len(resp.rows) : resp.rows[i].shape = "nokey"
      THEN Raised("KeyError")
    ELSE Returned([batters |-> SelectPlayers(resp.rows, FALSE),
                   pitchers |-> SelectPlayers(resp.rows, TRUE)])

get_team_roster(c, t, team_id, resp) ==
    memoize(c, t, make_cache_key("get_team_roster", team_id, "", 0),
            RosterTimeout, Body(c, get_team_roster_body(resp), "roster"))

get_season_stats_body(stat_type, resp) ==
    IF resp.t = "error" THEN Returned(EmptyDict)
    ELSE IF resp.shape # "splits" THEN Returned(EmptyDict)
    ELSE IF resp.rows[1].shape # "dict" THEN Returned(EmptyDict)
    ELSE format_stats(stat_type, resp.rows[1].stat)

\* season stats that are fetched at every call, without the decorator
get_season_stats_unmemoized(c, t, player_id, stat_type, resp) ==
    [cache |-> c, res |-> get_season_stats_body(stat_type, resp),
     reqs |-> <<"season">>, hit |-> FALSE]

get_season_stats(c, t, player_id, stat_type, resp) ==
    memoize(c, t, make_cache_key("get_season_stats", player_id, stat_type, 0),
            SeasonStatsTimeout,
            Body(c, get_season_stats_body(stat_type, resp), "season"))

\* a fallback that asks for the game log once more after the season stats
Fallback_retry(season) ==
    [cache |-> season.cache, res |-> season.res,
     reqs |-> <<"gameLog">> \o season.reqs \o <<"gameLog">>]

\* return MLBStatsAPI.get_season_stats(player_id, stat_type) after the
\* game-log request: season is the run of the call of get_season_stats
Fallback(season) ==
    [cache |-> season.cache, res |-> season.res,
     reqs |-> <<"gameLog">> \o season.reqs]

\* a body that answers an empty game log with the defaults, no fallback
get_player_stats_body_no_fallback(c, t, player_id, stat_type, glResp, seasonResp) ==
    IF glResp.t = "error" \/ glResp.shape = "statsint"
      THEN Fallback(get_season_stats(c, t, player_id, stat_type, seasonResp))
    ELSE IF glResp.shape = "notdict"
      THEN Body(c, Raised("AttributeError"), "gameLog")
    ELSE IF glResp.shape = "statsdict"
      THEN Body(c, Raised("KeyError"), "gameLog")
    ELSE Body(c, aggregate_stats(stat_type, glResp.rows), "gameLog")

\* a body that also falls back when the game log has fewer than two splits
get_player_stats_body_few(c, t, player_id, stat_type, glResp, seasonResp) ==
    IF \/ glResp.t = "error"
       \/ glResp.shape \in {"nostats", "nosplits", "statsint"}
       \/ glResp.shape = "splits" /\ Len(glResp.rows) < 2
      THEN Fallback(get_season_stats(c, t, player_id, stat_type, seasonResp))
    ELSE IF glResp.shape = "notdict"
      THEN Body(c, Raised("AttributeError"), "gameLog")
    ELSE IF glResp.shape = "statsdict"
      THEN Body(c, Raised("KeyError"), "gameLog")
    ELSE Body(c, aggregate_stats(stat_type, glResp.rows), "gameLog")

\* the body of get_player_stats: glResp answers the game-log request,
\* seasonResp the season request of the fallback, if it comes to one.  The
\* fallback is taken on a RequestException, on no stats or no splits, and
\* on the TypeError of data['stats'][0] ("statsint").
get_player_stats_body(c, t, player_id, stat_type, glResp, seasonResp) ==
    IF \/ glResp.t = "error"
       \/ glResp.shape \in {"nostats", "nosplits", "statsint"}
      THEN Fallback(get_season_stats(c, t, player_id, stat_type, seasonResp))
    ELSE IF glResp.shape = "notdict"
      THEN Body(c, Raised("AttributeError"), "gameLog")
    ELSE IF glResp.shape = "statsdict"
      THEN Body(c, Raised("KeyError"), "gameLog")
    ELSE Body(c, aggregate_stats(stat_type, glResp.rows), "gameLog")

get_player_stats(c, t, player_id, stat_type, days, glResp, seasonResp) ==
    memoize(c, t, make_cache_key("get_player_stats", player_id, stat_type, days),
            PlayerStatsTimeout,
            get_player_stats_body(c, t, player_id, stat_type, glResp, seasonResp))

\* a team-stats row: one stat group with the stat of its first split, the
\* ratios in thousandths (avg, obp, slg) and hundredths (era, whip)
HittingGroup(avg, obp, slg, hr) ==
    [group |-> "hitting", avg |-> avg, obp |-> obp, slg |-> slg,
     homeRuns |-> hr, era |-> MISSING, whip |-> MISSING, saves |-> MISSING]
PitchingGroup(era, whip, sv) ==
    [group |-> "pitching", avg |-> MISSING, obp |-> MISSING, slg |-> MISSING,
     homeRuns |-> MISSING, era |-> era, whip |-> whip, saves |-> sv]

TeamStatsInit ==
    [AVG |-> ".000", OBP |-> ".000", SLG |-> ".000", HR |-> "0",
     ERA |-> "0.00", WHIP |-> "0.00", SV |-> "0"]
TeamStatsFallback ==
    [AVG |-> ".245", OBP |-> ".315", SLG |-> ".425", HR |-> "15",
     ERA |-> "4.15", WHIP |-> "1.32", SV |-> "5"]

RECURSIVE TeamStatsLoop(_, _)
TeamStatsLoop(rows, team_stats) ==
    IF rows = <<>> THEN team_stats
    ELSE LET g == Head(rows)
             next ==
               IF g.group = "hitting"
                 THEN [team_stats EXCEPT
                         !.AVG = FmtFixed(IntOf(g.avg), 1000, 3),
                         !.OBP = FmtFixed(IntOf(g.obp), 1000, 3),
                         !.SLG = FmtFixed(IntOf(g.slg), 1000, 3),
                         !.HR = NatStr(IntOf(g.homeRuns))]
               ELSE IF g.group = "pitching"
                 THEN [team_stats EXCEPT
                         !.ERA = FmtFixed(IntOf(g.era), 100, 2),
                         !.WHIP = FmtFixed(IntOf(g.whip), 100, 2),
                         !.SV = NatStr(IntOf(g.saves))]
               ELSE team_stats
         IN  TeamStatsLoop(Tail(rows), next)

\* float() of a ratio of the group raises ValueError
BadGroup(g) ==
    \/ g.group = "hitting" /\ BAD \in {g.avg, g.obp, g.slg}
    \/ g.group = "pitching" /\ BAD \in {g.era, g.whip}

get_team_stats_body(resp) ==
    IF resp.t = "error" THEN Returned(TeamStatsFallback)
    ELSE IF resp.shape = "notdict" THEN Raised("AttributeError")
    ELSE IF resp.shape # "splits" THEN Returned(TeamStatsInit)
    ELSE IF \E i \in 1..Len(resp.rows) : BadGroup(resp.rows[i])
      THEN Returned(TeamStatsFallback)
    ELSE Returned(TeamStatsLoop(resp.rows, TeamStatsInit))

get_team_stats(c, t, team_id, resp) ==
    memoize(c, t, make_cache_key("get_team_stats", team_id, "", 0),
            TeamStatsTimeout, Body(c, get_team_stats_body(resp), "teamStats"))

(***************************************************************************)
(* The inputs of the model: the players, teams and upstream responses the  *)
(* requests are drawn from.                                                *)
(***************************************************************************)
MaxSteps == 3
MaxCalls == 1

PlayerIds == {1}
TeamIds == {1, 2}
\* the rolling periods build_team_data asks for
Windows == {7, 10, 21}
\* the periods the requests of Spec ask for
SomeWindows == {7, 10}

GameLogResponses ==
    {TransportFailure, Json("nostats"), Json("nosplits"), Json("notdict"),
     Json("statsdict"), Json("statsint")}
      \cup {JsonRows(g) : g \in ModelGameLogs}

SeasonResponses ==
    {TransportFailure, Json("nosplits"), Json("notdict"),
     JsonRows(<<Entry(StatSeason)>>), JsonRows(<<Entry(StatBad)>>),
     JsonRows(<<EntryNotDict>>)}

ScheduleResponses ==
    {TransportFailure, Json("nodates"), Json("notdict"),
     JsonRows(<<Game(1, 1, 2)>>), JsonRows(<<Game(1, 1, 2), GameNoKey>>)}

RosterResponses ==
    {TransportFailure, Json("noroster"), Json("notdict"),
     JsonRows(<<Player(1, "Outfielder"), Player(2, "Pitcher")>>),
     JsonRows(<<Player(1, "Outfielder"), PlayerNoKey>>)}

TeamStatsResponses ==
    {TransportFailure, Json("nostats"), Json("notdict"),
     JsonRows(<<HittingGroup(251, 320, 410, 12), PitchingGroup(385, 121, 4)>>),
     JsonRows(<<HittingGroup(BAD, 320, 410, 12)>>)}

\* the responses of Spec: each request fails or succeeds
Few(responses) ==
    {r \in responses :
        \/ r.t = "error"
        \/ r.shape = "splits" /\ Len(r.rows) = 1
                              /\ r.rows[1] \in {Entry(StatA), Entry(StatSeason),
                                                Game(1, 1, 2)}
        \/ r.shape = "splits" /\ Len(r.rows) = 2
                              /\ r.rows[1] \in {Player(1, "Outfielder"),
                                                HittingGroup(251, 320, 410, 12)}}

\* the times the clock takes: each timeout, one second before and after it
TimePoints ==
    UNION {{ttl - 1, ttl} : ttl \in {ScheduleTimeout, RosterTimeout,
                                      PlayerStatsTimeout, SeasonStatsTimeout,
                                      TeamStatsTimeout}} \cup {0}

(***************************************************************************)
(* The state.                                                              *)
(*   now     the clock, in seconds                                         *)
(*   cache   the entries of the process-wide cache                         *)
(*   nreq    the number of steps taken so far                              *)
(* and, as history of the run,                                             *)
(*   failed  the keys whose entry was stored by a call whose own upstream  *)
(*           request failed (a RequestException)                           *)
(*   owner   for each key, the operation and arguments of the call that    *)
(*           stored its entry                                              *)
(*   wiped   the keys that held a fresh entry when the cache was last      *)
(*           cleared and have not been asked for since                     *)
(*   last    the most recent call: the operation and its arguments, what   *)
(*           the cache held for it before, the upstream requests issued    *)
(*           with their responses, and the result                          *)
(*   build   the call of build_team_data: where it is (pc, the index i   *)
(*           of the key player at hand and the stats got for that player   *)
(*           so far), the roster and team stats it was given, the roster   *)
(*           as the call has changed it, the ids of the players of the     *)
(*           lineup, the team data it returned or the exception that ended *)
(*           it; and, as history, the numbers of batters and pitchers of   *)
(*           the roster, the feed, and the calls of get_player_stats made  *)
(*   red     a run of a reducer on its own: the reducer, the game logs (or *)
(*           the season stat as the one entry of logs), the same logs with *)
(*           two neighbouring entries exchanged, and what the reducer gave *)
(*           for the one and for the other                                 *)
(*   race    two requests that call get_player_stats with the same         *)
(*           arguments at the same time: where each is in the decorator,   *)
(*           what it got, and the values stored for the key, in order      *)
(*   inv     one invocation of get_player_stats in steps: where it is      *)
(*           (Rolling: waiting for the game-log response; SeasonFallback:  *)
(*           waiting for the season response; returned; raised), its       *)
(*           arguments and the game-log response it got                    *)
(*   session the favorites of the session of one client, with, as history, *)
(*           the last two requests that changed them and the favorites     *)
(*           before each                                                   *)
(***************************************************************************)
VARIABLES now, cache, nreq, failed, owner, wiped, last, build, red, race,
          inv, session

vars == <<now, cache, nreq, failed, owner, wiped, last, build, red, race, inv, session>>

\* an operation with its arguments
Args(fn, id, fam, days) == [fn |-> fn, id |-> id, fam |-> fam, days |-> days]
NoArgs == Args("none", 0, "", 0)
NoOwners == [k \in {} |-> NoArgs]
OwnerOf(o, key) == IF key \in DOMAIN o THEN o[key] ELSE NoArgs
SetOwner(o, key, a) ==
    [k \in DOMAIN o \cup {key} |-> IF k = key THEN a ELSE o[k]]

Memoized ==
    {"get_todays_games", "get_team_roster", "get_team_stats",
     "get_season_stats", "get_player_stats"}

NoCall ==
    [fn |-> "none", args |-> NoArgs, hit |-> FALSE, pre |-> NoEntry,
     prefailed |-> FALSE, preowner |-> NoArgs, waswiped |-> FALSE,
     seasonpre |-> NoEntry, reqs |-> <<>>, resps |-> <<>>,
     res |-> Returned(EmptyDict), at |-> 0]

NoBuild ==
    [pc |-> "idle", feed |-> "", batters |-> 0, pitchers |-> 0,
     roster |-> EmptyRoster, team_stats |-> EmptyDict, i |-> 0, got |-> <<>>,
     lineup |-> <<>>, raised |-> "none", team_data |-> EmptyDict,
     calls |-> <<>>]

NoReduce ==
    [pc |-> "idle", op |-> "none", stat_type |-> "", logs |-> <<>>,
     shuffled |-> <<>>, out |-> Returned(EmptyDict),
     out_shuffled |-> Returned(EmptyDict)]

NoRace ==
    [args |-> NoArgs,
     th |-> [r \in {1, 2} |->
               [pc |-> "idle", produced |-> FALSE, res |-> Returned(EmptyDict)]],
     writes |-> <<>>]

\* session.get('favorites', []) of a new session, and no request so far
NoRequest == [op |-> "none", team_name |-> 0, before |-> <<>>]
NoSession == [favorites |-> <<>>, req |-> NoRequest, prev |-> NoRequest]

NoInvocation ==
    [pc |-> "idle", args |-> NoArgs, glResp |-> TransportFailure]

Init ==
    /\ now = 0
    /\ cache = NoEntries
    /\ nreq = 0
    /\ failed = {}
    /\ owner = NoOwners
    /\ wiped = {}
    /\ last = NoCall
    /\ build = NoBuild
    /\ red = NoReduce
    /\ race = NoRace
    /\ inv = NoInvocation
    /\ session = NoSession

\* One call of a memoized operation: args the
\* operation and its arguments, key its cache key, m what the operator of
\* the operation gave, resps the responses at hand for the requests of
\* m.reqs, skey and sargs the key and arguments of the nested call of
\* get_season_stats (those of the call itself when there is none).
Serve(args, key, m, resps, skey, sargs) ==
    LET stored == ~m.hit /\ m.res.raised = "none"
        nested == skey # key /\ Len(m.reqs) = 2
        f1 == IF nested
                THEN IF resps[2].t = "error" THEN failed \cup {skey}
                     ELSE failed \ {skey}
              ELSE failed
        o1 == IF nested THEN SetOwner(owner, skey, sargs) ELSE owner
    IN  /\ nreq' = nreq + 1
        /\ cache' = m.cache
        /\ failed' = IF ~stored THEN f1
                     ELSE IF resps[1].t = "error" THEN f1 \cup {key}
                     ELSE f1 \ {key}
        /\ owner' = IF stored THEN SetOwner(o1, key, args) ELSE o1
        /\ wiped' = (wiped \ {key}) \ (IF nested THEN {skey} ELSE {})
        /\ last' = [fn |-> args.fn, args |-> args, hit |-> m.hit,
                    pre |-> Lookup(cache, key), prefailed |-> key \in failed,
                    preowner |-> OwnerOf(owner, key),
                    waswiped |-> key \in wiped,
                    seasonpre |-> IF skey # key THEN Lookup(cache, skey)
                                  ELSE NoEntry,
                    reqs |-> m.reqs,
                    resps |-> IF m.hit THEN <<>> ELSE resps,
                    res |-> m.res, at |-> now]

TodaysGamesOn(bound, responses) ==
    \E resp \in responses :
        LET key == make_cache_key("get_todays_games", 0, "", 0)
        IN  /\ nreq < bound
            /\ UNCHANGED <<now, build, red, race, inv, session>>
            /\ Serve(Args("get_todays_games", 0, "", 0), key,
                  get_todays_games(cache, now, resp), <<resp>>, key, NoArgs)

TeamRosterOn(bound, responses) ==
    \E team_id \in TeamIds, resp \in responses :
        LET key == make_cache_key("get_team_roster", team_id, "", 0)
        IN  /\ nreq < bound
            /\ UNCHANGED <<now, build, red, race, inv, session>>
            /\ Serve(Args("get_team_roster", team_id, "", 0), key,
                  get_team_roster(cache, now, team_id, resp), <<resp>>,
                  key, NoArgs)

TeamStatsOn(bound, responses) ==
    \E team_id \in TeamIds, resp \in responses :
        LET key == make_cache_key("get_team_stats", team_id, "", 0)
        IN  /\ nreq < bound
            /\ UNCHANGED <<now, build, red, race, inv, session>>
            /\ Serve(Args("get_team_stats", team_id, "", 0), key,
                  get_team_stats(cache, now, team_id, resp), <<resp>>,
                  key, NoArgs)

SeasonStatsOn(bound, responses) ==
    \E player_id \in PlayerIds, stat_type \in Families, resp \in responses :
        LET key == make_cache_key("get_season_stats", player_id, stat_type, 0)
        IN  /\ nreq < bound
            /\ UNCHANGED <<now, build, red, race, inv, session>>
            /\ Serve(Args("get_season_stats", player_id, stat_type, 0),
                  key, get_season_stats(cache, now, player_id, stat_type, resp),
                  <<resp>>, key, NoArgs)

PlayerStatsOn(bound, windows, glResponses, seasonResponses) ==
    \E player_id \in PlayerIds, stat_type \in Families, days \in windows,
       glResp \in glResponses, seasonResp \in seasonResponses :
        /\ nreq < bound
        /\ UNCHANGED <<now, build, red, race, inv, session>>
        /\ Serve(Args("get_player_stats", player_id, stat_type, days),
                 make_cache_key("get_player_stats", player_id, stat_type, days),
                 get_player_stats(cache, now, player_id, stat_type, days,
                                  glResp, seasonResp),
                 <<glResp, seasonResp>>,
                 make_cache_key("get_season_stats", player_id, stat_type, 0),
                 Args("get_season_stats", player_id, stat_type, 0))

(***************************************************************************)
(* Spec: the cache under requests over time.  Each request fails or        *)
(* succeeds upstream; the clock moves between requests; the cache may be   *)
(* cleared.                                                                *)
(***************************************************************************)
TodaysGames == TodaysGamesOn(MaxSteps, Few(ScheduleResponses))
TeamRoster == TeamRosterOn(MaxSteps, Few(RosterResponses))
TeamStats == TeamStatsOn(MaxSteps, Few(TeamStatsResponses))
SeasonStats == SeasonStatsOn(MaxSteps, Few(SeasonResponses))
PlayerStats ==
    PlayerStatsOn(MaxSteps, SomeWindows, Few(GameLogResponses),
                  Few(SeasonResponses))

\* GET /admin/clear-cache
clear_cache ==
    /\ nreq < MaxSteps
    /\ nreq' = nreq + 1
    /\ cache' = cache_clear(cache)
    /\ failed' = {}
    /\ owner' = NoOwners
    /\ wiped' = {k \in DOMAIN cache : Fresh(cache[k], now)}
    /\ last' = [NoCall EXCEPT !.fn = "clear_cache", !.at = now]
    /\ UNCHANGED <<now, build, red, race, inv, session>>

\* time passes between requests
Tick ==
    /\ nreq < MaxSteps
    /\ nreq' = nreq + 1
    /\ \E t \in TimePoints : t > now /\ now' = t
    /\ UNCHANGED <<cache, failed, owner, wiped, last, build, red, race, inv, session>>

Next ==
    \/ TodaysGames
    \/ TeamRoster
    \/ TeamStats
    \/ SeasonStats
    \/ PlayerStats
    \/ clear_cache
    \/ Tick

Spec == Init /\ [][Next]_vars

(***************************************************************************)
(* SpecCall: calls of the five operations under every upstream response of *)
(* the input sets, from the empty cache.                                   *)
(***************************************************************************)
CallTodaysGames == TodaysGamesOn(MaxCalls, ScheduleResponses)
CallTeamRoster == TeamRosterOn(MaxCalls, RosterResponses)
CallTeamStats == TeamStatsOn(MaxCalls, TeamStatsResponses)
CallSeasonStats == SeasonStatsOn(MaxCalls, SeasonResponses)
CallPlayerStats ==
    PlayerStatsOn(MaxCalls, Windows, GameLogResponses, SeasonResponses)

NextCall ==
    \/ CallTodaysGames
    \/ CallTeamRoster
    \/ CallTeamStats
    \/ CallSeasonStats
    \/ CallPlayerStats

SpecCall == Init /\ [][NextCall]_vars

(***************************************************************************)
(* build_team_data: the team data of a roster.  Player dicts are shared    *)
(* between the roster, the lineup, fullRoster and the starter; a player    *)
(* is identified by its id.                                                *)
(***************************************************************************)
Min(a, b) == IF a < b THEN a ELSE b

\* s[a:b]
Slice(s, a, b) == SubSeq(s, a + 1, Min(b, Len(s)))

\* the dict of a value for each of the periods '7', '10' and '21'
StatsMap(s7, s10, s21) == [d7 |-> s7, d10 |-> s10, d21 |-> s21]

BatterPlaceholder ==
    [avg |-> ".000", obp |-> ".000", slg |-> ".000", hr |-> 0, rbi |-> 0,
     h |-> 0, ab |-> 0]

PitcherPlaceholder ==
    [era |-> "0.00", whip |-> "0.00", k |-> 0, bb |-> 0, ip |-> "0.0",
     gs |-> 0, sv |-> 0, er |-> 0, h |-> 0, hr |-> 0]

RollingTeamStats ==
    [d7 |-> [AVG |-> ".250", OBP |-> ".320", SLG |-> ".400", HR |-> "10",
             AVG_HITS |-> "4.2", AVG_K |-> "3.8"],
     d10 |-> [AVG |-> ".248", OBP |-> ".318", SLG |-> ".395", HR |-> "12",
              AVG_HITS |-> "4.0", AVG_K |-> "4.1"],
     d21 |-> [AVG |-> ".245", OBP |-> ".315", SLG |-> ".390", HR |-> "15",
              AVG_HITS |-> "3.8", AVG_K |-> "4.3"]]

\* roster['batters'][:10], roster['pitchers'][:10]
FullRoster(players) == Slice(players, 0, 10)

\* key batters that are the whole list of batters
KeyBatters_all(batters) == batters

\* roster['batters'][:5]
KeyBatters(batters) == Slice(batters, 0, 5)

\* every batter after the key batters
RemainingBatters_all(batters) == Slice(batters, 5, Len(batters))

\* roster['batters'][5:10]
RemainingBatters(batters) == Slice(batters, 5, 10)

\* roster['pitchers'][:3]
KeyPitchers(pitchers) == Slice(pitchers, 0, 3)

\* remaining pitchers that end with the fifth
RemainingPitchers_five(pitchers) == Slice(pitchers, 3, 5)

\* roster['pitchers'][3:10]
RemainingPitchers(pitchers) == Slice(pitchers, 3, 10)

\* what the upstream answers during a build: the game log of a player for
\* a period, the season totals of a player, and the team stats
Feeds == {"rolling", "season", "down", "mixed", "broken"}

UpstreamGameLog(feed, player_id, days) ==
    CASE feed = "rolling" -> JsonRows(<<Entry(StatA), Entry(StatB)>>)
      [] feed = "season" -> Json("nosplits")
      [] feed = "down" -> TransportFailure
      [] feed = "mixed" ->
           IF days = 7 THEN TransportFailure
           ELSE IF player_id % 2 = 0 THEN Json("nosplits")
           ELSE JsonRows(<<Entry(StatA)>>)
      [] OTHER ->
           IF player_id % 4 = 0 /\ days = 10 THEN Json("notdict")
           ELSE JsonRows(<<Entry(StatA), Entry(StatB)>>)

UpstreamSeason(feed, player_id) ==
    IF feed = "down" \/ (feed = "mixed" /\ player_id % 3 = 0)
      THEN TransportFailure
    ELSE JsonRows(<<Entry(StatSeason)>>)

UpstreamTeamStats(feed) ==
    IF feed = "down" THEN TransportFailure
    ELSE JsonRows(<<HittingGroup(251, 320, 410, 12),
                    PitchingGroup(385, 121, 4)>>)

\* the roster get_team_roster gives for a team of b batters and p pitchers
RosterOf(b, p) ==
    get_team_roster_body(
        JsonRows([i \in 1..(b + p) |->
                    Player(i, IF i <= b THEN "Outfielder" ELSE "Pitcher")])).val

\* the periods, in the order build_team_data asks for them
Periods == <<7, 10, 21>>

\* players with the stats of those of targets set
SetStats(players, targets, stats) ==
    [i \in 1..Len(players) |->
        IF \E j \in 1..Len(targets) : targets[j].id = players[i].id
          THEN [players[i] EXCEPT !.stats = stats]
        ELSE players[i]]

\* the players the ids refer to
Deref(ids, players) ==
    [j \in 1..Len(ids) |->
        players[CHOOSE i \in 1..Len(players) : players[i].id = ids[j]]]

\* the team data returned: lineup the ids of the players appended to the
\* lineup, roster the roster as the loops have left it
team_data(team_name, roster, lineup, team_stats) ==
    [name |-> team_name,
     lineup |-> Deref(lineup, roster.batters),
     fullRoster |-> [batters |-> FullRoster(roster.batters),
                     pitchers |-> FullRoster(roster.pitchers)],
     starter |-> IF roster.pitchers # <<>> THEN roster.pitchers[1]
                 ELSE EmptyDict,
     teamStats |-> StatsMap(team_stats, team_stats, team_stats),
     rollingTeamStats |-> RollingTeamStats]

(***************************************************************************)
(* SpecBuild: build_team_data on rosters of every size up to MaxBatters    *)
(* batters and MaxPitchers pitchers, and of LargeStaff pitchers, under     *)
(* every feed.  Each call of get_player_stats is a step.                   *)
(***************************************************************************)
MaxBatters == 12
MaxPitchers == 4
LargeStaff == 11

\* build_team_data is called with the roster and the team stats that
\* get_team_roster and get_team_stats gave
BuildStart ==
    \E b \in 0..MaxBatters, p \in (0..MaxPitchers) \cup {LargeStaff},
       feed \in Feeds :
        /\ build.pc = "idle"
        /\ build' = [NoBuild EXCEPT
                       !.pc = "batters", !.feed = feed, !.batters = b,
                       !.pitchers = p, !.roster = RosterOf(b, p),
                       !.team_stats =
                          get_team_stats_body(UpstreamTeamStats(feed)).val,
                       !.i = 1]
        /\ UNCHANGED <<now, cache, nreq, failed, owner, wiped, last, red, race, inv, session>>

\* the next call of get_player_stats for the key player at hand; after the
\* call for the last period the player gets its stats; a call that raises
\* ends the build
KeyPlayerStats(pc, stat_type) ==
    LET players == IF stat_type = "hitting"
                     THEN KeyBatters(build.roster.batters)
                   ELSE KeyPitchers(build.roster.pitchers)
        player == players[build.i]
        days == Periods[Len(build.got) + 1]
        glResp == UpstreamGameLog(build.feed, player.id, days)
        seasonResp == UpstreamSeason(build.feed, player.id)
        args == Args("get_player_stats", player.id, stat_type, days)
    IN  /\ build.pc = pc
        /\ build.i <= Len(players)
        /\ UNCHANGED <<now, red, race, inv, session>>
        /\ \E m \in {get_player_stats(cache, now, player.id, stat_type, days,
                                       glResp, seasonResp)} :
             LET got == Append(build.got, m.res.val)
                 calls == Append(build.calls,
                                 [args |-> args, hit |-> m.hit,
                                  reqs |-> m.reqs, res |-> m.res])
                 stats == StatsMap(got[1], got[2], got[3])
             IN  /\ Serve(args,
                          make_cache_key("get_player_stats", player.id,
                                         stat_type, days),
                          m, <<glResp, seasonResp>>,
                          make_cache_key("get_season_stats", player.id,
                                         stat_type, 0),
                          Args("get_season_stats", player.id, stat_type, 0))
                 /\ build' =
                      IF m.res.raised # "none"
                        THEN [build EXCEPT !.pc = "raised",
                                           !.raised = m.res.raised,
                                           !.calls = calls]
                      ELSE IF Len(got) < Len(Periods)
                        THEN [build EXCEPT !.got = got, !.calls = calls]
                      ELSE IF stat_type = "hitting"
                        THEN [build EXCEPT
                                !.got = <<>>, !.i = @ + 1, !.calls = calls,
                                !.roster.batters =
                                   SetStats(@, <<player>>, stats),
                                !.lineup = Append(@, player.id)]
                      ELSE [build EXCEPT
                              !.got = <<>>, !.i = @ + 1, !.calls = calls,
                              !.roster.pitchers =
                                 SetStats(@, <<player>>, stats)]

KeyBatterStats == KeyPlayerStats("batters", "hitting")

\* after the key batters: the remaining batters get the placeholder
RemainingBatterStats ==
    /\ build.pc = "batters"
    /\ build.i > Len(KeyBatters(build.roster.batters))
    /\ build' = [build EXCEPT
                   !.pc = "pitchers", !.i = 1,
                   !.roster.batters =
                      SetStats(@, RemainingBatters(@),
                               StatsMap(BatterPlaceholder, BatterPlaceholder,
                                        BatterPlaceholder))]
    /\ UNCHANGED <<now, cache, nreq, failed, owner, wiped, last, red, race, inv, session>>

KeyPitcherStats == KeyPlayerStats("pitchers", "pitching")

\* after the key pitchers: the remaining pitchers get the placeholder, the
\* first pitcher is the starter, and the team data is returned
BuildReturn ==
    LET roster ==
          [build.roster EXCEPT
             !.pitchers =
                SetStats(@, RemainingPitchers(@),
                         StatsMap(PitcherPlaceholder, PitcherPlaceholder,
                                  PitcherPlaceholder))]
    IN  /\ build.pc = "pitchers"
        /\ build.i > Len(KeyPitchers(build.roster.pitchers))
        /\ build' = [build EXCEPT
                       !.pc = "returned", !.roster = roster,
                       !.team_data = team_data("team", roster, build.lineup,
                                               build.team_stats)]
        /\ UNCHANGED <<now, cache, nreq, failed, owner, wiped, last, red, race, inv, session>>

NextBuild ==
    \/ BuildStart
    \/ KeyBatterStats
    \/ RemainingBatterStats
    \/ KeyPitcherStats
    \/ BuildReturn

SpecBuild == Init /\ [][NextBuild]_vars

(***************************************************************************)
(* SpecReduce: the four reducers on their own.  A run starts with the      *)
(* input at hand and applies the reducer to it: a rolling reducer to the   *)
(* game logs and to the same logs with two neighbouring entries exchanged, *)
(* a season reducer to the stat of the first split.                        *)
(***************************************************************************)
MaxGames == 3
MaxAtBats == 6
MaxWhole == 6

\* a third game, after StatA and StatB
StatC ==
    [atBats |-> 5, hits |-> 2, homeRuns |-> 0, rbi |-> 0, baseOnBalls |-> 0,
     strikeOuts |-> 2, totalBases |-> 3, inningsPitched |-> Ip(1, 2),
     earnedRuns |-> 1, saves |-> 0, gamesStarted |-> 0]

\* a batting line: ab at bats, h hits of tb total bases, bb walks
HitStat(ab, h, bb, tb) ==
    [NoStat EXCEPT !.atBats = ab, !.hits = h, !.baseOnBalls = bb,
                   !.totalBases = tb]

\* the batting lines with H <= AB <= MaxAtBats, the hits all singles or
\* all doubles
BattingLines ==
    {HitStat(l[1], l[2], l[3], l[2] * l[4]) :
        l \in {q \in (0..MaxAtBats) \X (0..MaxAtBats) \X {0, 1} \X {1, 2} :
                 q[2] <= q[1]}}

\* the innings strings "W", "W.0", "W.1", "W.2" and no string at all
InningsStrings ==
    {Ip(w, f) : w \in 0..MaxWhole, f \in {NODOT, 0, 1, 2}} \cup {IpMissing}

\* the pitching lines of one hit and one earned run in these innings
PitchingLines ==
    {[NoStat EXCEPT !.inningsPitched = ip, !.earnedRuns = 1, !.hits = 1] :
        ip \in InningsStrings}

\* the windows of up to MaxGames of the three games, in every order
GameWindows ==
    UNION {[1..n -> {Entry(StatA), Entry(StatB), Entry(StatC)}] :
             n \in 1..MaxGames}

\* windows with an entry that lacks fields or holds a malformed one
MalformedWindows ==
    {<<Entry(StatA), Entry(StatBad)>>, <<Entry(StatBad), Entry(StatA)>>,
     <<Entry(StatA), Entry(StatBad), Entry(StatB)>>,
     <<Entry(StatA), Entry([StatB EXCEPT !.inningsPitched = IpBad])>>,
     <<Entry(StatA), EntryNoStat>>, <<EntryNoStat, Entry(StatB)>>,
     <<Entry(StatA), Entry(NoStat), Entry(StatB)>>,
     <<Entry(StatA), EntryNotDict>>}

\* s with its entries i and i + 1 exchanged
Swap(s, i) ==
    [j \in 1..Len(s) |->
        IF j = i THEN s[i + 1] ELSE IF j = i + 1 THEN s[i] ELSE s[j]]

\* a window with two neighbours exchanged, in every way (the window itself
\* when it is of one entry)
Shuffles(s) ==
    IF Len(s) = 1 THEN {s} ELSE {Swap(s, i) : i \in 1..(Len(s) - 1)}

ReduceRun(op, stat_type, logs, shuffled) ==
    [NoReduce EXCEPT !.pc = "input", !.op = op, !.stat_type = stat_type,
                     !.logs = logs, !.shuffled = shuffled]

ReduceInputs ==
    UNION {{ReduceRun("aggregate", f, s, t) : t \in Shuffles(s)} :
             f \in Families, s \in GameWindows \cup MalformedWindows}
      \cup {ReduceRun(op, "hitting", <<Entry(l)>>, <<Entry(l)>>) :
              op \in {"aggregate", "format"}, l \in BattingLines \cup {StatBad}}
      \cup {ReduceRun(op, "pitching", <<Entry(l)>>, <<Entry(l)>>) :
              op \in {"aggregate", "format"}, l \in PitchingLines \cup {StatBad}}

InitReduce ==
    /\ now = 0
    /\ cache = NoEntries
    /\ nreq = 0
    /\ failed = {}
    /\ owner = NoOwners
    /\ wiped = {}
    /\ last = NoCall
    /\ build = NoBuild
    /\ red \in ReduceInputs
    /\ race = NoRace
    /\ inv = NoInvocation
    /\ session = NoSession

\* a rolling reducer on the window and on the shuffled window
Aggregate ==
    /\ red.pc = "input"
    /\ red.op = "aggregate"
    /\ red' = [red EXCEPT
                 !.pc = "done",
                 !.out = aggregate_stats(red.stat_type, red.logs),
                 !.out_shuffled = aggregate_stats(red.stat_type, red.shuffled)]
    /\ UNCHANGED <<now, cache, nreq, failed, owner, wiped, last, build, race, inv, session>>

\* a season reducer on data['stats'][0]['splits'][0]['stat']
Format ==
    /\ red.pc = "input"
    /\ red.op = "format"
    /\ \E out \in {format_stats(red.stat_type, StatOf(red.logs[1]))} :
         red' = [red EXCEPT !.pc = "done", !.out = out, !.out_shuffled = out]
    /\ UNCHANGED <<now, cache, nreq, failed, owner, wiped, last, build, race, inv, session>>

NextReduce ==
    \/ Aggregate
    \/ Format

SpecReduce == InitReduce /\ [][NextReduce]_vars

(***************************************************************************)
(* SpecRace: two requests of the threaded server call get_player_stats     *)
(* with the same arguments while the key has no entry or an expired one.   *)
(* The decorator takes no lock: each request looks the key up (cache.get), *)
(* on a miss runs the body, and stores what the body returned (cache.set). *)
(* The get and the set are single operations on the dict of SimpleCache;   *)
(* the requests interleave between them in every order.  The body is one   *)
(* step: it touches the entry of the key only through the decorator.       *)
(***************************************************************************)
Requests == {1, 2}

RaceKey ==
    make_cache_key("get_player_stats", race.args.id, race.args.fam,
                   race.args.days)

\* the cache with the entry of an earlier call, stored at time 0
EarlierEntry(player_id, stat_type, days) ==
    get_player_stats(NoEntries, 0, player_id, stat_type, days,
                     JsonRows(<<Entry(StatA)>>), TransportFailure).cache

InitRace ==
    /\ nreq = 0
    /\ failed = {}
    /\ owner = NoOwners
    /\ wiped = {}
    /\ last = NoCall
    /\ build = NoBuild
    /\ red = NoReduce
    /\ inv = NoInvocation
    /\ session = NoSession
    /\ \E player_id \in PlayerIds, stat_type \in Families, days \in Windows :
         /\ race = [NoRace EXCEPT
                      !.args = Args("get_player_stats", player_id, stat_type,
                                    days),
                      !.th = [r \in Requests |-> [@[r] EXCEPT !.pc = "get"]]]
         /\ \/ now = 0 /\ cache = NoEntries
            \/ /\ now = PlayerStatsTimeout
               /\ cache = EarlierEntry(player_id, stat_type, days)

\* rv = self.cache.get(cache_key): a fresh entry is returned, otherwise
\* the request goes on to the body
MemoizeGet(r) ==
    /\ race.th[r].pc = "get"
    /\ race' = IF Fresh(Lookup(cache, RaceKey), now)
                 THEN [race EXCEPT
                         !.th[r].pc = "done",
                         !.th[r].res = Returned(Lookup(cache, RaceKey).value)]
               ELSE [race EXCEPT !.th[r].pc = "call"]
    /\ UNCHANGED <<now, cache, nreq, failed, owner, wiped, last, build, red,
                   inv, session>>

\* rv = f(*args, **kwargs): the body runs with the upstream responses it
\* gets; an exception leaves through the decorator
MemoizeCall(r) ==
    /\ race.th[r].pc = "call"
    /\ \E glResp \in GameLogResponses, seasonResp \in Few(SeasonResponses) :
         \E b \in {get_player_stats_body(cache, now, race.args.id,
                                         race.args.fam, glResp, seasonResp)} :
            /\ cache' = b.cache
            /\ race' = [race EXCEPT
                          !.th[r].pc = IF b.res.raised # "none" THEN "done"
                                       ELSE "set",
                          !.th[r].produced = TRUE,
                          !.th[r].res = b.res]
    /\ UNCHANGED <<now, nreq, failed, owner, wiped, last, build, red, inv, session>>

\* self.cache.set(cache_key, rv, timeout): the value is stored and returned
MemoizeSet(r) ==
    /\ race.th[r].pc = "set"
    /\ cache' = Put(cache, RaceKey,
                    [value |-> race.th[r].res.val, computed_at |-> now,
                     ttl |-> PlayerStatsTimeout])
    /\ race' = [race EXCEPT
                  !.th[r].pc = "done",
                  !.writes = Append(@, [by |-> r,
                                        value |-> race.th[r].res.val])]
    /\ UNCHANGED <<now, nreq, failed, owner, wiped, last, build, red, inv, session>>

NextRace ==
    \E r \in Requests :
        \/ MemoizeGet(r)
        \/ MemoizeCall(r)
        \/ MemoizeSet(r)

SpecRace == InitRace /\ [][NextRace]_vars

(***************************************************************************)
(* SpecRoster: view_details for one team.  get_team_roster is called on an *)
(* upstream roster of up to MaxRows players, pitchers and others in any    *)
(* order, and build_team_data is called with the roster it returned.       *)
(***************************************************************************)
MaxRows == 8

\* the upstream rosters: at each place a pitcher or a position player
UpstreamRosters ==
    UNION {{[i \in 1..n |->
               Player(i, IF i \in ps THEN "Pitcher"
                         ELSE IF i % 2 = 0 THEN "Two-Way Player"
                         ELSE "Outfielder")] : ps \in SUBSET (1..n)}
           : n \in 0..MaxRows}

RosterFeed ==
    {TransportFailure, JsonRows(<<Player(1, "Outfielder"), PlayerNoKey>>)}
      \cup {JsonRows(rows) : rows \in UpstreamRosters}

\* home_roster = MLBStatsAPI.get_team_roster(home_id)
ViewRoster ==
    \E team_id \in TeamIds, resp \in RosterFeed :
        LET key == make_cache_key("get_team_roster", team_id, "", 0)
        IN  /\ last = NoCall
            /\ UNCHANGED <<now, build, red, race, inv, session>>
            /\ Serve(Args("get_team_roster", team_id, "", 0), key,
                     get_team_roster(cache, now, team_id, resp), <<resp>>,
                     key, NoArgs)

\* home_team = build_team_data(home_team_name, home_roster, home_team_stats)
ViewBuildStart ==
    \E feed \in {"rolling", "mixed"} :
        /\ build.pc = "idle"
        /\ last.fn = "get_team_roster"
        /\ last.res.raised = "none"
        /\ build' = [NoBuild EXCEPT
                       !.pc = "batters", !.feed = feed,
                       !.batters = Len(last.res.val.batters),
                       !.pitchers = Len(last.res.val.pitchers),
                       !.roster = last.res.val,
                       !.team_stats =
                          get_team_stats_body(UpstreamTeamStats(feed)).val,
                       !.i = 1]
        /\ UNCHANGED <<now, cache, nreq, failed, owner, wiped, last, red, race, inv, session>>

NextRoster ==
    \/ ViewRoster
    \/ ViewBuildStart
    \/ KeyBatterStats
    \/ RemainingBatterStats
    \/ KeyPitcherStats
    \/ BuildReturn

SpecRoster == Init /\ [][NextRoster]_vars

(***************************************************************************)
(* SpecLive: invocations of get_player_stats in the steps of their         *)
(* upstream requests.  An invocation the cache does not answer issues the  *)
(* game-log request and waits (Rolling); the response, or the exception    *)
(* requests.get raises after timeout=10, ends the wait; on the fallback,   *)
(* unless the season entry answers, it issues the season request and waits *)
(* again (SeasonFallback).  Both requests carry a timeout, so each wait    *)
(* ends: the two response steps are weakly fair.                           *)
(***************************************************************************)
MaxInvocations == 2

InvocationKey ==
    make_cache_key("get_player_stats", inv.args.id, inv.args.fam,
                   inv.args.days)

InvocationSeasonKey ==
    make_cache_key("get_season_stats", inv.args.id, inv.args.fam, 0)

\* the call ends with what the decorator gives for the responses
Terminate(m, glResp, seasonResp) ==
    /\ Serve(inv.args, InvocationKey, m, <<glResp, seasonResp>>,
             InvocationSeasonKey,
             Args("get_season_stats", inv.args.id, inv.args.fam, 0))
    /\ inv' = [inv EXCEPT !.pc = IF m.res.raised # "none" THEN "raised"
                                 ELSE "returned",
                          !.glResp = glResp]

\* MLBStatsAPI.get_player_stats(player_id, stat_type, days): a fresh entry
\* is returned at once, otherwise the game-log request is issued
Invoke ==
    \E player_id \in PlayerIds, stat_type \in Families, days \in Windows :
        /\ inv.pc \in {"idle", "returned", "raised"}
        /\ nreq < MaxInvocations
        /\ UNCHANGED <<now, build, red, race, session>>
        /\ IF Fresh(Lookup(cache, make_cache_key("get_player_stats", player_id,
                                                 stat_type, days)), now)
             THEN \E m \in {get_player_stats(cache, now, player_id, stat_type,
                                            days, TransportFailure,
                                            TransportFailure)} :
                     /\ Serve(Args("get_player_stats", player_id, stat_type,
                                   days),
                              make_cache_key("get_player_stats", player_id,
                                             stat_type, days),
                              m, <<>>,
                              make_cache_key("get_season_stats", player_id,
                                             stat_type, 0),
                              Args("get_season_stats", player_id, stat_type, 0))
                     /\ inv' = [pc |-> "returned",
                                args |-> Args("get_player_stats", player_id,
                                              stat_type, days),
                                glResp |-> TransportFailure]
           ELSE /\ inv' = [pc |-> "Rolling",
                           args |-> Args("get_player_stats", player_id,
                                         stat_type, days),
                           glResp |-> TransportFailure]
                /\ UNCHANGED <<cache, nreq, failed, owner, wiped, last>>

\* response = requests.get(url, params=params, timeout=10) of the game log
\* returns or raises: the call aggregates and returns, or raises, or goes
\* on to get_season_stats, which a fresh season entry answers at once
GameLogResponds ==
    \E glResp \in GameLogResponses :
        /\ inv.pc = "Rolling"
        /\ UNCHANGED <<now, build, red, race, session>>
        /\ \E m \in {get_player_stats(cache, now, inv.args.id, inv.args.fam,
                                       inv.args.days, glResp,
                                       TransportFailure)} :
             IF Len(m.reqs) = 2
               THEN /\ inv' = [inv EXCEPT !.pc = "SeasonFallback",
                                          !.glResp = glResp]
                    /\ UNCHANGED <<cache, nreq, failed, owner, wiped, last>>
             ELSE Terminate(m, glResp, TransportFailure)

\* response = requests.get(url, params=params, timeout=10) of the season
\* stats returns or raises: get_season_stats and with it the call return
SeasonResponds ==
    \E seasonResp \in SeasonResponses :
        /\ inv.pc = "SeasonFallback"
        /\ UNCHANGED <<now, build, red, race, session>>
        /\ \E m \in {get_player_stats(cache, now, inv.args.id, inv.args.fam,
                                       inv.args.days, inv.glResp,
                                       seasonResp)} :
             Terminate(m, inv.glResp, seasonResp)

NextLive ==
    \/ Invoke
    \/ GameLogResponds
    \/ SeasonResponds

SpecLive ==
    /\ Init
    /\ [][NextLive]_vars
    /\ WF_vars(GameLogResponds)
    /\ WF_vars(SeasonResponds)

(***************************************************************************)
(* SpecFavorites: the favorites of one session under POST /favorites and   *)
(* POST /reset_favorites, for up to MaxTeams team names and a request      *)
(* without the form field (team_name None, written 0).                     *)
(***************************************************************************)
MaxTeams == 4

TeamNames == 0..MaxTeams

RECURSIVE ListRemove(_, _)
\* favorites.remove(team_name): the first occurrence goes
ListRemove(favorites, team_name) ==
    IF favorites = <<>> THEN <<>>
    ELSE IF Head(favorites) = team_name THEN Tail(favorites)
    ELSE <<Head(favorites)>> \o ListRemove(Tail(favorites), team_name)

\* a toggle that appends in every case
Toggled_append(favorites, team_name) == Append(favorites, team_name)

\* the list toggle_favorite stores
Toggled(favorites, team_name) ==
    IF \E i \in 1..Len(favorites) : favorites[i] = team_name
      THEN ListRemove(favorites, team_name)
    ELSE Append(favorites, team_name)

\* POST /favorites
toggle_favorite ==
    \E team_name \in TeamNames :
        /\ session' = [favorites |-> Toggled(session.favorites, team_name),
                       req |-> [op |-> "toggle", team_name |-> team_name,
                                before |-> session.favorites],
                       prev |-> session.req]
        /\ UNCHANGED <<now, cache, nreq, failed, owner, wiped, last, build,
                       red, race, inv>>

\* POST /reset_favorites
reset_favorites ==
    /\ session' = [favorites |-> <<>>,
                   req |-> [op |-> "reset", team_name |-> 0,
                            before |-> session.favorites],
                   prev |-> session.req]
    /\ UNCHANGED <<now, cache, nreq, failed, owner, wiped, last, build, red,
                   race, inv>>

NextFavorites ==
    \/ toggle_favorite
    \/ reset_favorites

SpecFavorites == Init /\ [][NextFavorites]_vars

(***************************************************************************)
(* Properties of the cache (Spec).                                         *)
(***************************************************************************)
\* the freshness windows as the specification states them
StatedTtl(fn) ==
    CASE fn = "get_todays_games" -> 180
      [] fn = "get_team_roster" -> 86400
      [] fn = "get_player_stats" -> 21600
      [] fn = "get_season_stats" -> 43200
      [] fn = "get_team_stats" -> 21600
      [] OTHER -> 0

KeyOfCall(c) == make_cache_key(c.args.fn, c.args.id, c.args.fam, c.args.days)

\* C1: a failed producer call is never cached: no call is answered from an
\* entry stored by a call of the same key whose upstream request failed;
\* the request after a failure invokes the producer again.
C1_FailedCallNotServedFromCache ==
    last.fn \in Memoized /\ last.prefailed => ~last.hit /\ last.reqs # <<>>

\* C2: a call that finds an entry for its key with now - computed_at < ttl
\* invokes no producer (issues no upstream request) and returns the value
\* the earlier call stored.
C2_FreshEntryServedWithoutProducer ==
    (/\ last.fn \in Memoized
     /\ last.pre # NoEntry
     /\ last.at - last.pre.computed_at < last.pre.ttl)
    => /\ last.hit
       /\ last.reqs = <<>>
       /\ last.res = Returned(last.pre.value)

C2_Witness ==
    /\ last.fn = "get_player_stats"
    /\ last.hit
    /\ last.reqs = <<>>
    /\ last.at > last.pre.computed_at

\* C3: a lookup is a hit iff now - computed_at < ttl, the ttl being 180 s
\* (schedule), 86400 s (roster), 21600 s (rolling player stats), 43200 s
\* (season player stats), 21600 s (team stats); a call that is no hit
\* invokes the producer, and the result it returns is stored with
\* computed_at = now.
C3_HitIffWithinTtl ==
    last.fn \in Memoized =>
        /\ last.hit <=> /\ last.pre # NoEntry
                        /\ last.at - last.pre.computed_at < StatedTtl(last.fn)
        /\ last.hit => last.res = Returned(last.pre.value)
        /\ ~last.hit => last.reqs # <<>>
        /\ ~last.hit /\ last.res.raised = "none" =>
              Lookup(cache, KeyOfCall(last)) =
                  [value |-> last.res.val, computed_at |-> last.at,
                   ttl |-> StatedTtl(last.fn)]

C3_Witness ==
    /\ last.fn = "get_player_stats"
    /\ ~last.hit
    /\ last.pre # NoEntry
    /\ last.at - last.pre.computed_at = 21600
    /\ last.reqs # <<>>
    /\ Lookup(cache, KeyOfCall(last)).computed_at = last.at

\* C4: clear_cache drops every entry, and the next call for a key that was
\* cached (still fresh) when it ran invokes the producer again.
C4_ClearCacheDropsEverything ==
    /\ last.fn = "clear_cache" => DOMAIN cache = {}
    /\ last.fn \in Memoized /\ last.waswiped
          => /\ ~last.hit
             /\ last.pre = NoEntry
             /\ last.reqs # <<>>

C4_Witness ==
    /\ last.fn = "get_team_roster"
    /\ last.waswiped
    /\ last.reqs = <<"roster">>

\* C5: calls with different keys never share entries: a call is answered
\* only from an entry stored by a call of the same operation with the same
\* arguments, and operations or arguments that differ have different keys.
C5_NoSharedEntries ==
    /\ last.hit => last.preowner = last.args
    /\ \A k \in DOMAIN cache :
          k = make_cache_key(OwnerOf(owner, k).fn, OwnerOf(owner, k).id,
                             OwnerOf(owner, k).fam, OwnerOf(owner, k).days)
    /\ \A f1, f2 \in Families, d1, d2 \in Windows :
          make_cache_key("get_player_stats", 1, f1, d1)
            = make_cache_key("get_player_stats", 1, f2, d2)
          => f1 = f2 /\ d1 = d2

C5_Witness ==
    /\ last.hit
    /\ last.args = Args("get_player_stats", 1, "hitting", 10)
    /\ make_cache_key("get_player_stats", 1, "hitting", 7) \in DOMAIN cache
    /\ cache[make_cache_key("get_player_stats", 1, "hitting", 7)].value
         # last.res.val

(***************************************************************************)
(* Properties of single calls (SpecCall).                                  *)
(***************************************************************************)
DefaultOf(fam) == IF fam = "hitting" THEN DefaultHitting ELSE DefaultPitching

\* C6: when the game-log fetch and the season fetch of a call of
\* get_player_stats both fail, the call returns the all-zero default stats
\* of the family.
C6_BothFetchesFailGivesDefault ==
    (/\ last.fn = "get_player_stats"
     /\ Len(last.reqs) = 2
     /\ last.resps[1].t = "error"
     /\ last.resps[2].t = "error")
    => last.res = Returned(DefaultOf(last.args.fam))

\* the season reducer of the family on a season-totals record
SeasonReducer(fam, r) ==
    IF fam = "hitting" THEN _format_hitting_stats(r)
    ELSE _format_pitching_stats(r)

\* the game-log response carries no split
ZeroSplits(r) == r.t = "json" /\ r.shape \in {"nostats", "nosplits"}
\* the season response carries a season-totals record
HasRecord(r) ==
    r.t = "json" /\ r.shape = "splits" /\ r.rows[1].shape = "dict"

\* C7: when the game-log request of get_player_stats returns zero splits,
\* the call resolves to the season stats of the player and family: the
\* season reducer applied to the season-totals record of the season
\* response, or the season value already cached.
C7_ZeroSplitsGivesSeasonStats ==
    (/\ last.fn = "get_player_stats"
     /\ ~last.hit
     /\ ZeroSplits(last.resps[1]))
    => IF Fresh(last.seasonpre, last.at)
         THEN /\ last.reqs = <<"gameLog">>
              /\ last.res = Returned(last.seasonpre.value)
       ELSE /\ last.reqs = <<"gameLog", "season">>
            /\ HasRecord(last.resps[2]) =>
                  last.res = SeasonReducer(last.args.fam,
                                           last.resps[2].rows[1].stat)

C7_Witness ==
    /\ last.fn = "get_player_stats"
    /\ ~last.hit
    /\ ZeroSplits(last.resps[1])
    /\ HasRecord(last.resps[2])
    /\ last.args.fam = "pitching"
    /\ last.res.val = _format_pitching_stats(StatSeason).val
    /\ last.res.val # DefaultPitching

\* C8: get_player_stats never raises to its caller, whatever the upstream
\* answers to the game-log and season requests.
C8_StatsPathNeverRaises ==
    last.fn = "get_player_stats" => last.res.raised = "none"

\* the fetch failed: a transport failure, or JSON of an unexpected or
\* missing shape
FetchFailure(r) ==
    \/ r.t = "error"
    \/ r.shape # "splits"
    \/ \E i \in 1..Len(r.rows) : r.rows[i].shape # "dict"

\* C9: on a fetch failure get_todays_games returns an empty list and
\* get_team_roster an empty roster; neither raises.
C9_FetchFailureGivesEmptyResult ==
    /\ last.fn \in {"get_todays_games", "get_team_roster"}
          => last.res.raised = "none"
    /\ last.fn = "get_todays_games" /\ ~last.hit /\ FetchFailure(last.resps[1])
          => last.res = Returned([games |-> <<>>])
    /\ last.fn = "get_team_roster" /\ ~last.hit /\ FetchFailure(last.resps[1])
          => last.res = Returned(EmptyRoster)

(***************************************************************************)
(* Properties of build_team_data (SpecBuild).                              *)
(***************************************************************************)
BatterPlaceholders ==
    StatsMap(BatterPlaceholder, BatterPlaceholder, BatterPlaceholder)
PitcherPlaceholders ==
    StatsMap(PitcherPlaceholder, PitcherPlaceholder, PitcherPlaceholder)

\* the result of the call of get_player_stats the build made for a player,
\* a family and a period
Called(id, fam, days) ==
    \E i \in 1..Len(build.calls) :
        build.calls[i].args = Args("get_player_stats", id, fam, days)
ResultOfCall(id, fam, days) ==
    build.calls[CHOOSE i \in 1..Len(build.calls) :
        build.calls[i].args = Args("get_player_stats", id, fam, days)].res.val

\* the player carries live stats: what get_player_stats returned for it
\* for each of the three periods
Live(player, fam) ==
    /\ \A days \in Windows : Called(player.id, fam, days)
    /\ player.stats = StatsMap(ResultOfCall(player.id, fam, 7),
                               ResultOfCall(player.id, fam, 10),
                               ResultOfCall(player.id, fam, 21))

Aggregated(fam) ==
    /\ red.pc = "done"
    /\ red.op = "aggregate"
    /\ red.stat_type = fam
    /\ FirstRaise(red.logs, fam) = 0

\* the outs of an innings string "W.F": 3 W + F
OutsOf(ip) ==
    IF ip.w = MISSING THEN 0
    ELSE IF ip.f = NODOT THEN 3 * ip.w
    ELSE 3 * ip.w + ip.f

RECURSIVE TotalOuts(_)
TotalOuts(game_logs) ==
    IF game_logs = <<>> THEN 0
    ELSE OutsOf(StatOf(Head(game_logs)).inningsPitched)
           + TotalOuts(Tail(game_logs))

\* C11: the rolling pitching reducer reads the digit after the dot of an
\* innings string as thirds of an inning and sums the games: the innings it
\* returns are (the sum over the games of 3 W + F) / 3, rendered to one
\* decimal
C11_InningsAreSummedThirds ==
    Aggregated("pitching") =>
        red.out.val.ip = FmtFixed(TotalOuts(red.logs), 3, 1)

\* "5.2" and "3.1" give 9.0 innings
C11_Witness ==
    /\ Aggregated("pitching")
    /\ Len(red.logs) = 2
    /\ red.logs[1].stat.inningsPitched = Ip(5, 2)
    /\ red.logs[2].stat.inningsPitched = Ip(3, 1)
    /\ red.out.val.ip = "9.0"

\* a finished run of a hitting reducer, rolling or season, over entries of
\* which none is malformed
HittingRun ==
    /\ red.pc = "done"
    /\ red.stat_type = "hitting"
    /\ FirstRaise(red.logs, "hitting") = 0

\* C12: the hitting reducers render avg as H/AB to three decimals when
\* AB > 0 and as the zero-stat default ".000" when AB = 0
C12_AvgIsRatioOrDefault ==
    HittingRun =>
        IF SumField(red.logs, "atBats") > 0
          THEN red.out.val.avg = FmtFixed(SumField(red.logs, "hits"),
                                          SumField(red.logs, "atBats"), 3)
        ELSE red.out.val.avg = DefaultHitting.avg

\* C13: rolling aggregation is order-independent: a rolling reducer gives
\* the same result, every count and every rendered ratio, for a window and
\* for the window with its entries in another order
C13_OrderIndependent ==
    red.pc = "done" /\ red.op = "aggregate" => red.out = red.out_shuffled

\* num/den in thousandths, rounded; 0 when the denominator is 0
Thousandths(num, den) == IF den > 0 THEN RoundScaled(num, den, 3) ELSE 0

\* C14: for a non-empty set of splits the rendered ops is the rendered obp
\* plus the rendered slg to within 0.001, obp being (H+BB)/(AB+BB) and slg
\* TB/AB to three decimals, each 0 when its denominator is 0
C14_OpsIsObpPlusSlg ==
    HittingRun =>
        LET ab == SumField(red.logs, "atBats")
            bb == SumField(red.logs, "baseOnBalls")
            obp == Thousandths(SumField(red.logs, "hits") + bb, ab + bb)
            slg == Thousandths(SumField(red.logs, "totalBases"), ab)
        IN  /\ red.out.val.obp = DecStr(obp, 3)
            /\ red.out.val.slg = DecStr(slg, 3)
            /\ \E ops \in (obp + slg - 1)..(obp + slg + 1) :
                  red.out.val.ops = DecStr(ops, 3)

\* one hit in three at bats: obp and slg are 0.333 each, ops is 0.667
C14_Witness ==
    /\ HittingRun
    /\ SumField(red.logs, "atBats") = 3
    /\ red.out.val.obp = "0.333"
    /\ red.out.val.slg = "0.333"
    /\ red.out.val.ops = "0.667"

\* the entries of a window that are not malformed: JSON objects of which
\* the reducer of the family can read every field
WellFormed(game_logs, fam) ==
    SelectSeq(game_logs,
              LAMBDA g : FirstRaise(<<g>>, fam) = 0)

\* C16: a single malformed game-log entry does not void the rest of the
\* window: a missing field of an entry counts as zero, and the totals a
\* rolling reducer returns count the other entries of a window that has a
\* malformed entry (every entry being a JSON object)
C16_MalformedEntryDoesNotVoidWindow ==
    /\ red.pc = "done" /\ red.op = "aggregate"
    /\ \A i \in 1..Len(red.logs) : red.logs[i].shape # "notdict"
    => /\ red.out.raised = "none"
       /\ red.out.val.h = SumField(WellFormed(red.logs, red.stat_type), "hits")
       /\ red.out.val.bb
            = SumField(WellFormed(red.logs, red.stat_type), "baseOnBalls")

(***************************************************************************)
(* Properties of the fallback (SpecCall, SpecBuild).                       *)
(***************************************************************************)
\* the positions of the requests of the most recent call that went to req
RequestsTo(req) == {i \in 1..Len(last.reqs) : last.reqs[i] = req}

\* C17: the fallback is one-shot.  A call of get_player_stats that the
\* cache did not answer issues at most one game-log request and at most one
\* season request, and every game-log request comes before every season
\* request: nothing is asked of the game log once the season stats are
\* asked for.
C17_FallbackIsOneShot ==
    last.fn = "get_player_stats" /\ ~last.hit
    => /\ Cardinality(RequestsTo("gameLog")) <= 1
       /\ Cardinality(RequestsTo("season")) <= 1
       /\ \A i \in RequestsTo("gameLog"), j \in RequestsTo("season") : i < j

\* a call that fell back: the game-log request, then the season request
C17_Witness ==
    /\ last.fn = "get_player_stats" /\ ~last.hit
    /\ last.reqs = <<"gameLog", "season">>
    /\ last.resps[1].t = "json" /\ last.resps[1].shape = "nosplits"

\* the game-log response of the most recent call carries at least one split
HasSplits(r) == r.t = "json" /\ r.shape = "splits" /\ Len(r.rows) >= 1

\* C18: with at least one split in the game-log response, a call of
\* get_player_stats that the cache did not answer ends as the rolling
\* reducer of its stat family ends on those splits, and the game-log
\* request is the only request it issues: the season stats are not asked
\* for.
C18_SplitsGiveTheRollingResult ==
    /\ last.fn = "get_player_stats" /\ ~last.hit
    /\ HasSplits(last.resps[1])
    => /\ last.res = aggregate_stats(last.args.fam, last.resps[1].rows)
       /\ last.reqs = <<"gameLog">>

\* a call on a game log of one split, which the reducer totals
C18_Witness ==
    /\ last.fn = "get_player_stats" /\ ~last.hit
    /\ HasSplits(last.resps[1]) /\ Len(last.resps[1].rows) = 1
    /\ last.args.fam = "hitting"
    /\ last.res.raised = "none" /\ last.res.val.h = 1
    /\ last.reqs = <<"gameLog">>

\* the ids of the players at the first n places of players
FirstIds(players, n) == {players[i].id : i \in 1..Min(n, Len(players))}

\* C19: the cost of a build is bounded whatever the size of the roster.
\* At every point of a call of build_team_data, get_player_stats has been
\* called at most (5 + 3) * 3 = 24 times, each call for one of the first
\* five batters (hitting) or of the first three pitchers (pitching) and for
\* one of the periods 7, 10 and 21, and for no other member of the roster.
C19_AtMostTwentyFourCalls ==
    /\ Len(build.calls) <= (5 + 3) * 3
    /\ \A n \in 1..Len(build.calls) :
         LET a == build.calls[n].args
         IN  /\ a.fn = "get_player_stats"
             /\ a.days \in {7, 10, 21}
             /\ \/ a.fam = "hitting"
                   /\ a.id \in FirstIds(build.roster.batters, 5)
                \/ a.fam = "pitching"
                   /\ a.id \in FirstIds(build.roster.pitchers, 3)

\* a build on a roster of more than five batters and more than three
\* pitchers that returned after 24 calls
C19_Witness ==
    /\ build.pc = "returned"
    /\ build.batters > 5 /\ build.pitchers > 3
    /\ Len(build.roster.batters) > 5 /\ Len(build.roster.pitchers) > 3
    /\ Len(build.calls) = 24

\* the n-th call of get_player_stats of the build fell back to the season
\* stats: its game-log request failed or its game log had no splits
FellBack(n) ==
    LET a == build.calls[n].args
        r == UpstreamGameLog(build.feed, a.id, a.days)
    IN  r.t = "error" \/ ZeroSplits(r)

\* the calls of the build that issued the season request for a player
SeasonRequests(id, fam) ==
    {n \in 1..Len(build.calls) :
        /\ build.calls[n].args.id = id /\ build.calls[n].args.fam = fam
        /\ \E k \in 1..Len(build.calls[n].reqs) :
               build.calls[n].reqs[k] = "season"}

\* C20: the season fallback has a cache entry of its own, keyed by the
\* player and the stat family and not by the period.  When calls of
\* get_player_stats for one player and family fall back for several of the
\* periods 7, 10 and 21 within the season timeout, the season request is
\* issued at most once, by the first of them, and every one of them returns
\* the same season value.
C20_SeasonFetchedOncePerPlayer ==
    \A i, j \in 1..Len(build.calls) :
        /\ i < j
        /\ build.calls[i].args.id = build.calls[j].args.id
        /\ build.calls[i].args.fam = build.calls[j].args.fam
        /\ FellBack(i) /\ FellBack(j)
        => /\ build.calls[j].reqs = <<"gameLog">>
           /\ build.calls[j].res = build.calls[i].res
           /\ Cardinality(SeasonRequests(build.calls[i].args.id,
                                         build.calls[i].args.fam)) = 1

\* the three calls for the first batter fell back, the first of them with
\* the season request, and all three returned the season totals
C20_Witness ==
    /\ Len(build.calls) >= 3
    /\ \A n \in 1..3 : /\ build.calls[n].args.id = build.calls[1].args.id
                       /\ ~build.calls[n].hit
                       /\ FellBack(n)
                       /\ build.calls[n].res =
                             format_stats("hitting", StatSeason)
    /\ {build.calls[n].args.days : n \in 1..3} = {7, 10, 21}
    /\ build.calls[1].reqs = <<"gameLog", "season">>
    /\ build.calls[3].reqs = <<"gameLog">>

(***************************************************************************)
(* Properties of concurrent calls (SpecRace).                              *)
(***************************************************************************)
\* the request has returned a value
Finished(r) == race.th[r].pc = "done" /\ race.th[r].res.raised = "none"

IdsOf(players) == [i \in 1..Len(players) |-> players[i].id]

\* the upstream rows that are, or are not, of position type 'Pitcher'
RowsOfType(rows, pitcher) ==
    SelectSeq(rows, LAMBDA row : (row.type = "Pitcher") = pitcher)

\* the roster get_team_roster stored for the team of the view
StoredRosters ==
    {cache[k].value : k \in {j \in DOMAIN cache : j.fn = "get_team_roster"}}

\* C21: get_team_roster puts every player of the upstream roster in exactly
\* one of its two lists, in 'pitchers' if and only if the position type is
\* 'Pitcher' and otherwise in 'batters', in the upstream order, none
\* dropped and none twice; and build_team_data, at every point of its run,
\* has the same players in the same order in each list as the roster it
\* was given.
C21_RoleDerivedOnce ==
    /\ /\ last.fn = "get_team_roster" /\ ~last.hit
       /\ last.resps[1].t = "json" /\ last.resps[1].shape = "splits"
       /\ \A i \in 1..Len(last.resps[1].rows) :
             last.resps[1].rows[i].shape = "dict"
       => /\ last.res.raised = "none"
          /\ IdsOf(last.res.val.pitchers) =
                IdsOf(RowsOfType(last.resps[1].rows, TRUE))
          /\ IdsOf(last.res.val.batters) =
                IdsOf(RowsOfType(last.resps[1].rows, FALSE))
          /\ Len(last.res.val.pitchers) + Len(last.res.val.batters) =
                Len(last.resps[1].rows)
    /\ build.pc # "idle"
       => \A given \in StoredRosters :
             /\ IdsOf(build.roster.batters) = IdsOf(given.batters)
             /\ IdsOf(build.roster.pitchers) = IdsOf(given.pitchers)

\* a build that returned on a roster of more than five batters whose
\* first upstream player is a pitcher and whose pitchers and batters
\* alternate upstream
C21_Witness ==
    /\ build.pc = "returned"
    /\ Len(build.roster.batters) > 5 /\ Len(build.roster.pitchers) >= 2
    /\ build.roster.pitchers[1].id = 1
    /\ build.roster.batters[1].id = 2
    /\ build.roster.pitchers[2].id = 3
    /\ StoredRosters # {}
    /\ build.roster.batters[6].stats = StatsMap(BatterPlaceholder,
                                                BatterPlaceholder,
                                                BatterPlaceholder)

(***************************************************************************)
(* Properties of an invocation in steps (SpecLive).                        *)
(***************************************************************************)
\* the invocation waits for an upstream response
Waiting == inv.pc \in {"Rolling", "SeasonFallback"}

\* every wait ends: the invocation leaves get_player_stats, with a value
\* or with an exception
InvocationTerminates == Waiting ~> inv.pc \in {"returned", "raised"}

\* C22: every invocation of get_player_stats that the cache does not
\* answer eventually returns a value (the rolling stats, the season stats
\* or a default), given that each upstream request is answered or times
\* out: it does not stay in Rolling or in SeasonFallback, and it ends by
\* returning.
C22_InvocationEventuallyReturns == Waiting ~> inv.pc = "returned"

\* a rolling reducer ran on a window of one well-formed entry
SingleRecordRun ==
    /\ red.pc = "done" /\ red.op = "aggregate"
    /\ Len(red.logs) = 1 /\ red.logs[1].shape = "dict"

\* C23: the rolling and the season reducers agree on a single record: for
\* every stat record r, _aggregate_hitting_stats([{stat: r}]) equals
\* _format_hitting_stats(r) and _aggregate_pitching_stats([{stat: r}])
\* equals _format_pitching_stats(r), ip, era and whip included, also when
\* the innings pitched of r have the fractional digit 1 or 2.
C23_ReducersAgreeOnOneRecord ==
    SingleRecordRun
    => red.out = format_stats(red.stat_type, StatOf(red.logs[1]))

\* the hitting reducers agree on every single record
HittingReducersAgree ==
    SingleRecordRun /\ red.stat_type = "hitting"
    => red.out = format_stats("hitting", StatOf(red.logs[1]))

\* the pitching reducers agree on the records whose innings are whole
PitchingReducersAgreeOnWholeInnings ==
    /\ SingleRecordRun /\ red.stat_type = "pitching"
    /\ StatOf(red.logs[1]).inningsPitched.f \in {NODOT, 0}
    => red.out = format_stats("pitching", StatOf(red.logs[1]))

\* the player carries a stats map with an entry for each of the periods
HasStatsMap(player) ==
    /\ player.stats # Absent
    /\ DOMAIN player.stats = {"d7", "d10", "d21"}

\* C24: after build_team_data has returned, every player of the
\* fullRoster of the team data (the first ten batters and the first ten
\* pitchers of the roster) carries a stats map with an entry for each of
\* the periods 7, 10 and 21, whatever the size of the roster and whatever
\* the upstream answered.
C24_FullRosterCarriesStatsMaps ==
    build.pc = "returned" =>
      LET view == build.team_data.fullRoster
      IN  /\ Len(view.batters) = Min(10, build.batters)
          /\ Len(view.pitchers) = Min(10, build.pitchers)
          /\ \A i \in 1..Len(view.batters) : HasStatsMap(view.batters[i])
          /\ \A i \in 1..Len(view.pitchers) : HasStatsMap(view.pitchers[i])

\* a build on more than ten batters and more than ten pitchers with the
\* upstream down: the first batter carries three empty results, the tenth
\* pitcher the placeholders
C24_Witness ==
    /\ build.pc = "returned" /\ build.feed = "down"
    /\ build.batters > 10 /\ build.pitchers > 10
    /\ Len(build.team_data.fullRoster.pitchers) = 10
    /\ build.team_data.fullRoster.batters[1].stats =
          StatsMap(EmptyDict, EmptyDict, EmptyDict)
    /\ HasStatsMap(build.team_data.fullRoster.pitchers[10])
    /\ ~HasStatsMap(build.roster.pitchers[11])

(***************************************************************************)
(* Properties of the favorites (SpecFavorites).                            *)
(***************************************************************************)
\* the teams of a list
TeamsOf(favorites) == {favorites[i] : i \in 1..Len(favorites)}

\* C25: from the empty list of a new session, after any sequence of
\* toggle_favorite and reset_favorites requests the favorites hold no team
\* twice.  toggle_favorite(t) takes t out when it is in the list and
\* appends it when it is not, so that two toggles of the same team in a
\* row give back the same set of favorites; reset_favorites leaves the
\* list empty.
C25_FavoritesHoldNoDuplicates ==
    /\ Cardinality(TeamsOf(session.favorites)) = Len(session.favorites)
    /\ session.req.op = "toggle"
       => IF session.req.team_name \in TeamsOf(session.req.before)
            THEN /\ TeamsOf(session.favorites) =
                       TeamsOf(session.req.before) \ {session.req.team_name}
                 /\ Len(session.favorites) = Len(session.req.before) - 1
          ELSE session.favorites =
                  Append(session.req.before, session.req.team_name)
    /\ /\ session.req.op = "toggle" /\ session.prev.op = "toggle"
       /\ session.req.team_name = session.prev.team_name
       => TeamsOf(session.favorites) = TeamsOf(session.prev.before)
    /\ session.req.op = "reset" => session.favorites = <<>>

\* a team that was in a list of three was toggled twice in a row: the set
\* is the same, the team now at the end
C25_Witness ==
    /\ session.req.op = "toggle" /\ session.prev.op = "toggle"
    /\ session.req.team_name = session.prev.team_name
    /\ Len(session.prev.before) = 3
    /\ session.prev.before[1] = session.req.team_name
    /\ session.favorites[3] = session.req.team_name
    /\ session.favorites # session.prev.before
    /\ TeamsOf(session.favorites) = TeamsOf(session.prev.before)

=============================================================================
